---- MODULE Spec2Model ----
(***************************************************************************)
(* Host-side pin-test monitor: the Device Collector (data_storage.py) as   *)
(* it is driven by the packet processor (concurrent_monitor.py), together  *)
(* with the event decoder, the strength classifier and the ACK sender.     *)
(***************************************************************************)
EXTENDS Integers, Sequences, FiniteSets, TLC

VARIABLES devices, current_device_family, ser_out, reports, sent, transitions,
          packets, headers, last

\* the two tasks of monitor_serial, the queue and the event between them, the
\* supervising loop, the serial input still to come and the locals of the
\* packet processor; pushed, consumed and handed record what went through,
\* emitted the calls of the two packet parsers; debug_buffer is the bytes of
\* the current text line; calls records the markers taken from the buffer
\* and the Collector and ACK calls made for them, in the order of the code
VARIABLES data_queue, stop_event, reader_pc, new_data, processor_pc, main_pc,
          ser_in, buffer, packet_data, receiving_header, receiving_chunk,
          pushed, consumed, handed, emitted, debug_buffer, calls

\* the state the collector-level handlers work on
collectorvars == <<devices, current_device_family, ser_out, reports, sent, transitions,
                   packets, headers, last>>

taskvars == <<data_queue, stop_event, reader_pc, new_data, processor_pc, main_pc,
              ser_in, buffer, packet_data, receiving_header, receiving_chunk,
              pushed, consumed, handed, emitted, debug_buffer, calls>>

\* the event decoder called on its own: the mask it was last given, as its two
\* 16-bit words <<low, high>>, and the names it returned
VARIABLES bitmask, event_names

\* the list of names last given to encode_event_list
VARIABLES event_list

\* the events last given to analyze_pin and the strength it returned
VARIABLES analyzed, pin_strength

\* the bytes last given to the two checksum functions, and what CRC32.crcFast
\* and calculate_crc returned for them, as word pairs <<low, high>>
VARIABLES crc_message, crc_fast, crc_codec

\* the matrix builder called on its own: the last call and the matrix it returned
VARIABLES matrix_call, matrix

\* analyze_connections called on its own: the results it last returned
VARIABLES results

decodervars == <<bitmask, event_names, event_list, analyzed, pin_strength,
                 crc_message, crc_fast, crc_codec, matrix_call, matrix, results>>

vars == <<collectorvars, taskvars, decodervars>>

(***************************************************************************)
(* Bounds of the model.                                                    *)
(***************************************************************************)
MaxPackets == 5
MaxHeaders == 3

(***************************************************************************)
(* Wire keys and protocol constants.                                       *)
(***************************************************************************)
KEY_CHUNK_ID == 0
KEY_PINS == 2
KEY_PIN == 4
KEY_EVENTS == 5
KEY_CONNECTIONS == 6
KEY_OTHER_PIN == 7
KEY_CONNECTION_PARAMETER == 8
KEY_CONNECTION_TYPE == 9
KEY_STREAM_NUMBER == 10

HEADER_KEY_DEVICE_UUID == 0
HEADER_KEY_DEVICE_FAMILY == 1
HEADER_KEY_TOTAL_CHUNKS == 2
HEADER_KEY_VERSION == 9
HEADER_KEY_EXPECTED_SESSIONS == 10

CONNECTION_TYPE_INTERNAL == 0
CONNECTION_TYPE_EXTERNAL == 1

ACK_START == 421141276
ACK_END == 488513312
ACK_REQUESTED == 8

\* Python's None where a string is expected, and where an integer is expected.
None == "None"
NoneInt == -1000
\* b'' (the empty byte string)
EmptyBytes == << >>

(***************************************************************************)
(* dict.get(key, default) on a map modelled as a function.                 *)
(***************************************************************************)
Get(d, k, default) == IF k \in DOMAIN d THEN d[k] ELSE default

\* Python truthiness of a family value (a string here) and of an integer.
TruthyFamily(f) == f # None /\ f # ""
TruthyInt(n) == n # 0

(***************************************************************************)
(* event_decoder.py                                                        *)
(***************************************************************************)
PIN_EVENT_TYPES ==
  (0 :> "PIN_INITIALLY_LOW") @@ (1 :> "PIN_INITIALLY_HIGH") @@
  (2 :> "PIN_DISTURBED") @@ (3 :> "HANDSHAKE_OK_INITIATOR") @@
  (4 :> "HANDSHAKE_OK_RESPONDER") @@ (5 :> "HANDSHAKE_FAILURE") @@
  (6 :> "DATA_HANDSHAKE_OK") @@ (7 :> "DATA_HANDSHAKE_FAILURE") @@
  (8 :> "PIN_IS_CONNECTED_WITH_INTERNAL_PIN") @@
  (9 :> "PIN_IS_CONNECTED_WITH_EXTERNAL_PIN") @@
  (10 :> "PIN_IS_NOT_LOW_WHEN_PULLED_DOWN") @@
  (11 :> "PIN_IS_NOT_HIGH_WHEN_PULLED_UP") @@
  (12 :> "PIN_IS_NOT_LOW_WHEN_DRIVEN_LOW") @@
  (13 :> "PIN_IS_NOT_HIGH_WHEN_DRIVEN_HIGH") @@
  (14 :> "UART_RX_IS_NOT_WORKING") @@
  (15 :> "EXPECTS_TO_WORK_IN_ONE_DIRECTION")

\* f"UNKNOWN_EVENT_{bit_position}" for the positions without a table entry
UnknownEventName(b) ==
  CASE b = 16 -> "UNKNOWN_EVENT_16" [] b = 17 -> "UNKNOWN_EVENT_17"
    [] b = 18 -> "UNKNOWN_EVENT_18" [] b = 19 -> "UNKNOWN_EVENT_19"
    [] b = 20 -> "UNKNOWN_EVENT_20" [] b = 21 -> "UNKNOWN_EVENT_21"
    [] b = 22 -> "UNKNOWN_EVENT_22" [] b = 23 -> "UNKNOWN_EVENT_23"
    [] b = 24 -> "UNKNOWN_EVENT_24" [] b = 25 -> "UNKNOWN_EVENT_25"
    [] b = 26 -> "UNKNOWN_EVENT_26" [] b = 27 -> "UNKNOWN_EVENT_27"
    [] b = 28 -> "UNKNOWN_EVENT_28" [] b = 29 -> "UNKNOWN_EVENT_29"
    [] b = 30 -> "UNKNOWN_EVENT_30" [] OTHER -> "UNKNOWN_EVENT_31"

\* A mask is held as its two 16-bit words <<low, high>>, so that bit 31 has a
\* value; Words gives the words of an integer below 2^31.
WORD == 65536

Words(n) == << n % WORD, n \div WORD >>

\* event_bits & (1 << bit_position), as a truth value
BitIsSet(event_bits, bit_position) ==
  (event_bits[(bit_position \div 16) + 1] \div (2 ^ (bit_position % 16))) % 2 = 1

\* number of bit positions the decoder looks at: range(31)
DecodedBits == 31

\* a decoder that leaves out the positions the table has no name for
RECURSIVE DecodeFrom_table_only(_, _)
DecodeFrom_table_only(event_bits, bit_position) ==
  IF bit_position >= DecodedBits THEN << >>
  ELSE (IF BitIsSet(event_bits, bit_position) /\ bit_position \in DOMAIN PIN_EVENT_TYPES
        THEN << PIN_EVENT_TYPES[bit_position] >>
        ELSE << >>) \o DecodeFrom_table_only(event_bits, bit_position + 1)

RECURSIVE DecodeFrom(_, _)
DecodeFrom(event_bits, bit_position) ==
  IF bit_position >= DecodedBits THEN << >>
  ELSE (IF BitIsSet(event_bits, bit_position)
        THEN << Get(PIN_EVENT_TYPES, bit_position, UnknownEventName(bit_position)) >>
        ELSE << >>) \o DecodeFrom(event_bits, bit_position + 1)

decode_event_type_one_hot(event_bits) == DecodeFrom(event_bits, 0)

\* reverse_event_map.get(event): the position the table names event at, or None
reverse_event_map_get(event) ==
  LET at == { p \in DOMAIN PIN_EVENT_TYPES : PIN_EVENT_TYPES[p] = event }
  IN IF at = {} THEN NoneInt ELSE CHOOSE p \in at : TRUE

\* event_bits | (1 << bit_position)
OrBit(event_bits, bit_position) ==
  IF BitIsSet(event_bits, bit_position) THEN event_bits
  ELSE [event_bits EXCEPT ![(bit_position \div 16) + 1] = @ + 2 ^ (bit_position % 16)]

\* the loop of encode_event_list from the i-th name on
RECURSIVE EncodeFrom(_, _, _)
EncodeFrom(events, i, event_bits) ==
  IF i > Len(events) THEN event_bits
  ELSE LET bit_position == reverse_event_map_get(events[i])
       IN EncodeFrom(events, i + 1,
                     IF bit_position # NoneInt THEN OrBit(event_bits, bit_position)
                     ELSE event_bits)

encode_event_list(events) == EncodeFrom(events, 1, Words(0))

(***************************************************************************)
(* crc.py: class CRC32, and the crc-32 function of concurrent_monitor.py.  *)
(* A 32-bit value is held as its two 16-bit words <<low, high>>.           *)
(***************************************************************************)
WIDTH == 32

\* 0x04C11DB7, 0xFFFFFFFF, 0xFFFFFFFF
POLYNOMIAL == <<7607, 1217>>
INITIAL_REMAINDER == <<65535, 65535>>
FINAL_XOR_VALUE == <<65535, 65535>>

\* x ^ y for numbers of n bits
RECURSIVE XorNumber(_, _, _)
XorNumber(x, y, n) ==
  IF n = 0 THEN 0
  ELSE ((x + y) % 2) + 2 * XorNumber(x \div 2, y \div 2, n - 1)

\* a ^ b
Xor(a, b) == << XorNumber(a[1], b[1], 16), XorNumber(a[2], b[2], 16) >>

\* (a << n) & 0xFFFFFFFF
ShiftLeft(a, n) ==
  IF n >= 16 THEN << 0, (a[1] * 2 ^ (n - 16)) % WORD >>
  ELSE << (a[1] * 2 ^ n) % WORD, (a[2] * 2 ^ n + a[1] \div 2 ^ (16 - n)) % WORD >>

\* a >> n
ShiftRight(a, n) ==
  IF n >= 16 THEN << a[2] \div 2 ^ (n - 16), 0 >>
  ELSE << a[1] \div 2 ^ n + (a[2] % 2 ^ n) * 2 ^ (16 - n), a[2] \div 2 ^ n >>

\* the low n bits of the number x in reverse order
RECURSIVE ReflectNumber(_, _)
ReflectNumber(x, n) ==
  IF n = 0 THEN 0
  ELSE (x % 2) * 2 ^ (n - 1) + ReflectNumber(x \div 2, n - 1)

\* reflect(data, nBits), for the two widths it is called with: 8 and WIDTH
reflect(a, nBits) ==
  IF nBits = WIDTH THEN << ReflectNumber(a[2], 16), ReflectNumber(a[1], 16) >>
  ELSE << ReflectNumber(a[1], nBits), 0 >>

\* curr & TOPBIT, as a truth value
TopBitSet(curr) == BitIsSet(curr, WIDTH - 1)

\* the inner loop of generate_crc_table, rounds more times; the bits of curr
\* above position 31 never reach the entry and are left out
RECURSIVE TableRounds(_, _)
TableRounds(curr, rounds) ==
  IF rounds = 0 THEN curr
  ELSE IF TopBitSet(curr)
       THEN TableRounds(Xor(ShiftLeft(curr, 1), POLYNOMIAL), rounds - 1)
       ELSE TableRounds(ShiftLeft(curr, 1), rounds - 1)

\* self.table[dividend]
table(dividend) ==
  reflect(TableRounds(ShiftLeft(reflect(Words(dividend), 8), WIDTH - 8), 8), WIDTH)

\* the loop of crcFast: rs holds the remainder before the first byte and after
\* each byte handled so far
RECURSIVE CrcFastLoop(_, _)
CrcFastLoop(message, rs) ==
  IF Len(rs) > Len(message) THEN rs[Len(rs)]
  ELSE LET remainder == rs[Len(rs)]
           index == Xor(reflect(Words(message[Len(rs)]), 8),
                        ShiftRight(remainder, WIDTH - 8))
       IN CrcFastLoop(message,
                      Append(rs, Xor(table(index[1]), ShiftLeft(remainder, 8))))

crcFast(message) ==
  Xor(reflect(CrcFastLoop(message, << INITIAL_REMAINDER >>), WIDTH), FINAL_XOR_VALUE)

\* crcmod's predefined 'crc-32': polynomial 0x04C11DB7 reflected (0xEDB88320),
\* initial value and final XOR 0xFFFFFFFF, bytes taken low bit first
REFLECTED_POLYNOMIAL == reflect(POLYNOMIAL, WIDTH)

RECURSIVE Crc32Rounds(_, _)
Crc32Rounds(crc, rounds) ==
  IF rounds = 0 THEN crc
  ELSE IF BitIsSet(crc, 0)
       THEN Crc32Rounds(Xor(ShiftRight(crc, 1), REFLECTED_POLYNOMIAL), rounds - 1)
       ELSE Crc32Rounds(ShiftRight(crc, 1), rounds - 1)

\* cs holds the register before the first byte and after each byte handled so far
RECURSIVE Crc32Loop(_, _)
Crc32Loop(message, cs) ==
  IF Len(cs) > Len(message) THEN cs[Len(cs)]
  ELSE Crc32Loop(message,
                 Append(cs, Crc32Rounds(Xor(cs[Len(cs)], Words(message[Len(cs)])), 8)))

calculate_crc(message) ==
  Xor(Crc32Loop(message, << INITIAL_REMAINDER >>), FINAL_XOR_VALUE)

(***************************************************************************)
(* pin_analyzer.py                                                         *)
(***************************************************************************)
\* the value 'U' of a stage without a measurement
U == 2

\* set(events)
SeqToSet(s) == { s[i] : i \in 1..Len(s) }

\* a helper that takes a stage without a measurement for one measured low
get_val_missing_is_low(stage, ev) ==
  IF (stage \o "_HIGH") \in ev THEN 1 ELSE 0

get_val(stage, ev) ==
  IF (stage \o "_HIGH") \in ev THEN 1
  ELSE IF (stage \o "_LOW") \in ev THEN 0
  ELSE U

checks == << "STEP_1_A", "STEP_1_B", "STEP_2_A", "STEP_2_B", "STEP_3_A", "STEP_3_B" >>

\* the pattern table, in the order the dictionary is iterated
patterns ==
  << << 6,  <<1, 1, 1, 1, 1, 1>> >>,
     << 5,  <<1, 1, 1, 1, U, 1>> >>,
     << 4,  <<1, 1, 1, 1, 0, 1>> >>,
     << 3,  <<1, 1, U, 1, 0, 1>> >>,
     << 2,  <<1, 1, 0, 1, 0, 1>> >>,
     << 1,  <<U, 1, 0, 1, 0, 1>> >>,
     << 0,  <<0, 1, 0, 1, 0, 1>> >>,
     << -1, <<0, U, 0, 1, 0, 1>> >>,
     << -2, <<0, 0, 0, 1, 0, 1>> >>,
     << -3, <<0, 0, U, 1, 0, 1>> >>,
     << -4, <<0, 0, 0, 0, 0, 1>> >>,
     << -5, <<0, 0, 0, 0, U, 1>> >>,
     << -6, <<0, 0, 0, 0, 0, 0>> >> >>

\* a comparison in which the 'U' of a pattern stands for any value
RECURSIVE MatchFrom_wildcard(_, _)
MatchFrom_wildcard(actual, i) ==
  IF i > Len(patterns) THEN NoneInt
  ELSE IF \A k \in 1..Len(actual) : patterns[i][2][k] \in {actual[k], U}
       THEN patterns[i][1]
  ELSE MatchFrom_wildcard(actual, i + 1)

RECURSIVE MatchFrom(_, _)
MatchFrom(actual, i) ==
  IF i > Len(patterns) THEN NoneInt
  ELSE IF actual = patterns[i][2] THEN patterns[i][1]
  ELSE MatchFrom(actual, i + 1)

analyze_pin(events) ==
  LET ev == SeqToSet(events)
      actual == [ k \in 1..Len(checks) |-> get_val(checks[k], ev) ]
  IN MatchFrom(actual, 1)

(***************************************************************************)
(* data_storage.py: DeviceDataCollector                                    *)
(***************************************************************************)
\* self.devices[k] = v
Put(d, k, v) == [ x \in (DOMAIN d) \cup {k} |-> IF x = k THEN v ELSE d[x] ]

SetMin(S) == CHOOSE x \in S : \A y \in S : x <= y
SetMax(S) == CHOOSE x \in S : \A y \in S : x >= y

\* the record process_header stores for the family (lines 234-245)
NewDevice(header_result) ==
  LET header_data == header_result.data
      git_commit_hash == Get(header_data, HEADER_KEY_VERSION, None)
  IN [total_chunks |-> Get(header_data, HEADER_KEY_TOTAL_CHUNKS, 0),
      expected_sessions |-> Get(header_data, HEADER_KEY_EXPECTED_SESSIONS, 1),
      pins |-> << >>,
      received_sessions |-> << >>,
      raw_header |-> Get(header_result, "raw_bytes", EmptyBytes),
      raw_session_chunks |-> << >>,
      complete |-> FALSE,
      saved |-> FALSE,
      uuid |-> Get(header_data, HEADER_KEY_DEVICE_UUID, "UNKNOWN"),
      git_commit |-> git_commit_hash]

\* process_header without the hash_valid test
process_header_ignores_checksum(devs, cur, header_result) ==
  LET device_family == Get(header_result.data, HEADER_KEY_DEVICE_FAMILY, None)
  IN IF device_family = None
     THEN [devices |-> devs, current |-> cur, ret |-> FALSE]
     ELSE [devices |-> Put(devs, device_family, NewDevice(header_result)),
           current |-> device_family, ret |-> TRUE]

\* process_header without the test for a missing family id
process_header_accepts_no_family(devs, cur, header_result) ==
  IF ~header_result.hash_valid
  THEN [devices |-> devs, current |-> cur, ret |-> FALSE]
  ELSE LET device_family == Get(header_result.data, HEADER_KEY_DEVICE_FAMILY, None)
       IN [devices |-> Put(devs, device_family, NewDevice(header_result)),
           current |-> device_family, ret |-> TRUE]

\* process_header that starts a new device table instead of replacing one entry
process_header_clears_all(devs, cur, header_result) ==
  IF ~header_result.hash_valid
  THEN [devices |-> devs, current |-> cur, ret |-> FALSE]
  ELSE LET device_family == Get(header_result.data, HEADER_KEY_DEVICE_FAMILY, None)
       IN IF device_family = None
          THEN [devices |-> devs, current |-> cur, ret |-> FALSE]
          ELSE [devices |-> Put(<< >>, device_family, NewDevice(header_result)),
                current |-> device_family, ret |-> TRUE]

process_header(devs, cur, header_result) ==
  IF ~header_result.hash_valid
  THEN [devices |-> devs, current |-> cur, ret |-> FALSE]
  ELSE LET header_data == header_result.data
           device_family == Get(header_data, HEADER_KEY_DEVICE_FAMILY, None)
       IN IF device_family = None
          THEN [devices |-> devs, current |-> cur, ret |-> FALSE]
          ELSE [devices |-> Put(devs, device_family, NewDevice(header_result)),
                current |-> device_family,
                ret |-> TRUE]

\* the connection records built from one pin entry of a chunk (lines 279-282)
new_connections(pin_entry) ==
  LET cs == Get(pin_entry, KEY_CONNECTIONS, << >>)
  IN [ i \in 1..Len(cs) |->
         [other_pin |-> Get(cs[i], KEY_OTHER_PIN, NoneInt),
          parameter |-> Get(cs[i], KEY_CONNECTION_PARAMETER, NoneInt),
          type |-> Get(cs[i], KEY_CONNECTION_TYPE, 0)] ]

\* the loop body that assigns the new connections instead of extending the list
MergePinEntry_replaces_connections(pins, pin_entry) ==
  LET events_raw == Get(pin_entry, KEY_EVENTS, 0)
      events == IF TruthyInt(events_raw) THEN decode_event_type_one_hot(Words(events_raw)) ELSE << >>
      pin_num == Get(pin_entry, KEY_PIN, NoneInt)
      fresh == [pin |-> pin_num, events |-> events, events_mask |-> events_raw,
                strength |-> analyze_pin(events), connections |-> new_connections(pin_entry)]
      existing == { i \in 1..Len(pins) : pins[i].pin = pin_num }
  IN IF existing # {} THEN [pins EXCEPT ![SetMin(existing)] = fresh]
     ELSE Append(pins, fresh)

\* a loop body that appends the entry's pin whether or not the device
\* already holds a pin of that number
MergePinEntry_always_appends(pins, pin_entry) ==
  LET events_raw == Get(pin_entry, KEY_EVENTS, 0)
      events == IF TruthyInt(events_raw) THEN decode_event_type_one_hot(Words(events_raw)) ELSE << >>
  IN Append(pins, [pin |-> Get(pin_entry, KEY_PIN, NoneInt),
                   events |-> events,
                   events_mask |-> events_raw,
                   strength |-> analyze_pin(events),
                   connections |-> new_connections(pin_entry)])

\* one iteration of the loop over chunk_data[KEY_PINS] (lines 270-303)
MergePinEntry(pins, pin_entry) ==
  LET events_raw == Get(pin_entry, KEY_EVENTS, 0)
      events == IF TruthyInt(events_raw) THEN decode_event_type_one_hot(Words(events_raw)) ELSE << >>
      pin_num == Get(pin_entry, KEY_PIN, NoneInt)
      strength == analyze_pin(events)
      existing == { i \in 1..Len(pins) : pins[i].pin = pin_num }
  IN IF existing # {}
     THEN LET e == SetMin(existing)
          IN [pins EXCEPT ![e] =
                [pin |-> pins[e].pin,
                 events |-> events,
                 events_mask |-> events_raw,
                 strength |-> strength,
                 connections |-> pins[e].connections \o new_connections(pin_entry)]]
     ELSE Append(pins, [pin |-> pin_num,
                        events |-> events,
                        events_mask |-> events_raw,
                        strength |-> strength,
                        connections |-> new_connections(pin_entry)])

RECURSIVE MergePinEntries(_, _, _)
MergePinEntries(pins, entries, i) ==
  IF i > Len(entries) THEN pins
  ELSE MergePinEntries(MergePinEntry(pins, entries[i]), entries, i + 1)

\* a test that starts masking at strength 2 and -2
_should_mask_connection_from_two(devs, cur, events, phase) ==
  LET pins == devs[cur].pins
      same == { i \in 1..Len(pins) : pins[i].events = events }
      stored == IF same = {} THEN NoneInt ELSE pins[SetMin(same)].strength
      strength == IF stored = NoneInt THEN analyze_pin(events) ELSE stored
  IN IF strength = NoneInt \/ strength = 0 THEN FALSE
     ELSE IF strength >= 2 /\ phase \in {1, 3} THEN TRUE
     ELSE IF strength <= -2 /\ phase \in {0, 2} THEN TRUE
     ELSE FALSE

_should_mask_connection(devs, cur, events, phase) ==
  LET pins == devs[cur].pins
      same == { i \in 1..Len(pins) : pins[i].events = events }
      stored == IF same = {} THEN NoneInt ELSE pins[SetMin(same)].strength
      strength == IF stored = NoneInt THEN analyze_pin(events) ELSE stored
  IN IF strength = NoneInt \/ strength = 0 THEN FALSE
     ELSE IF strength >= 1 /\ phase \in {1, 3} THEN TRUE
     ELSE IF strength <= -1 /\ phase \in {0, 2} THEN TRUE
     ELSE FALSE

\* pin_events.get(other_pin, []) of _filter_weak_connections
PinEventsOf(pins, other_pin) ==
  LET idx == { i \in 1..Len(pins) : pins[i].pin = other_pin }
  IN IF idx = {} THEN << >> ELSE pins[SetMax(idx)].events

\* a filter that tests the source pin of a connection only
_filter_weak_connections_source_only(devs, cur, device_family) ==
  IF device_family \notin DOMAIN devs THEN devs
  ELSE LET device == devs[device_family]
           FilterConn(pin, conn) ==
             [other_pin |-> conn.other_pin,
              parameter |-> conn.parameter,
              type |-> conn.type,
              masked |->
                IF conn.type = CONNECTION_TYPE_INTERNAL
                THEN _should_mask_connection(devs, cur, pin.events, conn.parameter)
                ELSE FALSE]
           FilterPin(pin) ==
             [pin EXCEPT !.connections =
                [ j \in 1..Len(pin.connections) |-> FilterConn(pin, pin.connections[j]) ]]
       IN [devs EXCEPT ![device_family].pins =
             [ i \in 1..Len(device.pins) |-> FilterPin(device.pins[i]) ]]

_filter_weak_connections(devs, cur, device_family) ==
  IF device_family \notin DOMAIN devs THEN devs
  ELSE LET device == devs[device_family]
           FilterConn(pin, conn) ==
             [other_pin |-> conn.other_pin,
              parameter |-> conn.parameter,
              type |-> conn.type,
              masked |->
                IF conn.type = CONNECTION_TYPE_INTERNAL
                THEN _should_mask_connection(devs, cur, pin.events, conn.parameter)
                     \/ _should_mask_connection(devs, cur,
                          PinEventsOf(device.pins, conn.other_pin), conn.parameter)
                ELSE FALSE]
           FilterPin(pin) ==
             [pin EXCEPT !.connections =
                [ j \in 1..Len(pin.connections) |-> FilterConn(pin, pin.connections[j]) ]]
       IN [devs EXCEPT ![device_family].pins =
             [ i \in 1..Len(device.pins) |-> FilterPin(device.pins[i]) ]]

(***************************************************************************)
(* data_storage.py: _apply_phase_masking.  PhaseMasking.should_keep_phase  *)
(* comes from the module phase_masking, which is not among the sources; it *)
(* is written from the specification's sentence on phase-presence masking: *)
(* the even phases 0, 2, 4 and the odd phases 1, 3, 5 are two chains, and  *)
(* a phase later in its chain is kept only if the phase before it in the   *)
(* chain was observed for the pair.                                        *)
(***************************************************************************)
should_keep_phase(phase, phases) == phase < 2 \/ (phase - 2) \in phases

\* the first pass of _apply_phase_masking for one key: the phases of the
\* internal connections with a phase in 0..5 grouped under pin_pair
\* (lines 360-369)
PairPhases(device, pin_pair) ==
  { device.pins[ij[1]].connections[ij[2]].parameter :
      ij \in { ij \in (1..Len(device.pins)) \X (1..8) :
                 /\ ij[2] <= Len(device.pins[ij[1]].connections)
                 /\ device.pins[ij[1]].connections[ij[2]].type = CONNECTION_TYPE_INTERNAL
                 /\ device.pins[ij[1]].connections[ij[2]].parameter \in 0..5
                 /\ << device.pins[ij[1]].pin,
                       device.pins[ij[1]].connections[ij[2]].other_pin >> = pin_pair } }

\* conn['phase_masked'] = value
SetPhaseMasked(conn, value) ==
  [ k \in DOMAIN conn \cup {"phase_masked"} |->
      IF k = "phase_masked" THEN value ELSE conn[k] ]

\* a grouping that puts both directions of a pin pair under one key
_apply_phase_masking_unordered(devs, device_family) ==
  IF device_family \notin DOMAIN devs THEN devs
  ELSE LET device == devs[device_family]
           MaskConn(pin, conn) ==
             IF conn.type = CONNECTION_TYPE_INTERNAL /\ conn.parameter \in 0..5
             THEN SetPhaseMasked(conn,
                    ~should_keep_phase(conn.parameter,
                        PairPhases(device, << pin.pin, conn.other_pin >>)
                        \cup PairPhases(device, << conn.other_pin, pin.pin >>)))
             ELSE conn
       IN [devs EXCEPT ![device_family].pins =
             [ i \in 1..Len(device.pins) |->
                 [device.pins[i] EXCEPT !.connections =
                    [ j \in 1..Len(device.pins[i].connections) |->
                        MaskConn(device.pins[i], device.pins[i].connections[j]) ]] ]]

\* _apply_phase_masking(device_family) (lines 350-375)
_apply_phase_masking(devs, device_family) ==
  IF device_family \notin DOMAIN devs THEN devs
  ELSE LET device == devs[device_family]
           MaskConn(pin, conn) ==
             IF conn.type = CONNECTION_TYPE_INTERNAL /\ conn.parameter \in 0..5
             THEN SetPhaseMasked(conn,
                    ~should_keep_phase(conn.parameter,
                        PairPhases(device, << pin.pin, conn.other_pin >>)))
             ELSE conn
       IN [devs EXCEPT ![device_family].pins =
             [ i \in 1..Len(device.pins) |->
                 [device.pins[i] EXCEPT !.connections =
                    [ j \in 1..Len(device.pins[i].connections) |->
                        MaskConn(device.pins[i], device.pins[i].connections[j]) ]] ]]

\* pd.DataFrame(0, index=row_labels, columns=col_labels).  A label is
\* get_pin_name's text for a pin number, which differs for different numbers;
\* the matrix keeps the pin numbers in its place.
DataFrame(row_pins, col_pins) ==
  [none |-> FALSE, rows |-> row_pins, cols |-> col_pins,
   cells |-> [ i \in 1..Len(row_pins) |-> [ j \in 1..Len(col_pins) |-> 0 ] ]]

\* what the builders return for a controller the collector has no record of
NoMatrix == [none |-> TRUE, rows |-> << >>, cols |-> << >>, cells |-> << >>]

\* df.at[pin_a, pin_b] = value: every cell whose row and column carry the labels
SetCell(df, pin_a, pin_b, value) ==
  [df EXCEPT !.cells =
     [ i \in 1..Len(df.rows) |->
         [ j \in 1..Len(df.cols) |->
             IF df.rows[i] = pin_a /\ df.cols[j] = pin_b THEN value
             ELSE df.cells[i][j] ] ]]

\* [pin['pin'] for pin in device['pins']]
PinNumbers(device) == [ i \in 1..Len(device.pins) |-> device.pins[i].pin ]

\* pin_name_b in col_labels
InLabels(pin_num, labels) == \E j \in 1..Len(labels) : labels[j] = pin_num

\* the loops without the test of the connection type
RECURSIVE ConnectionMatrixFrom_any_type(_, _, _, _, _)
ConnectionMatrixFrom_any_type(df, device_a, controller_b, i, j) ==
  IF i > Len(device_a.pins) THEN df
  ELSE IF j > Len(device_a.pins[i].connections)
       THEN ConnectionMatrixFrom_any_type(df, device_a, controller_b, i + 1, 1)
  ELSE LET pin == device_a.pins[i]
           conn == pin.connections[j]
       IN IF /\ conn.parameter = controller_b
             /\ InLabels(conn.other_pin, df.cols)
          THEN ConnectionMatrixFrom_any_type(SetCell(df, pin.pin, conn.other_pin, 1),
                                             device_a, controller_b, i, j + 1)
          ELSE ConnectionMatrixFrom_any_type(df, device_a, controller_b, i, j + 1)

\* the loops of create_connection_matrix from the j-th connection of the
\* i-th pin of device_a on (lines 629-638)
RECURSIVE ConnectionMatrixFrom(_, _, _, _, _)
ConnectionMatrixFrom(df, device_a, controller_b, i, j) ==
  IF i > Len(device_a.pins) THEN df
  ELSE IF j > Len(device_a.pins[i].connections)
       THEN ConnectionMatrixFrom(df, device_a, controller_b, i + 1, 1)
  ELSE LET pin == device_a.pins[i]
           conn == pin.connections[j]
       IN IF /\ conn.type = CONNECTION_TYPE_EXTERNAL
             /\ conn.parameter = controller_b
             /\ InLabels(conn.other_pin, df.cols)
          THEN ConnectionMatrixFrom(SetCell(df, pin.pin, conn.other_pin, 1),
                                    device_a, controller_b, i, j + 1)
          ELSE ConnectionMatrixFrom(df, device_a, controller_b, i, j + 1)

create_connection_matrix(devs, controller_a, controller_b) ==
  IF controller_a \notin DOMAIN devs \/ controller_b \notin DOMAIN devs THEN NoMatrix
  ELSE ConnectionMatrixFrom(DataFrame(PinNumbers(devs[controller_a]),
                                      PinNumbers(devs[controller_b])),
                            devs[controller_a], controller_b, 1, 1)

\* phase_error_events of create_phase_matrix (lines 658-665)
phase_error_events ==
  (0 :> "PIN_IS_NOT_LOW_WHEN_ONE_SET_PULLDOWN") @@
  (1 :> "PIN_IS_NOT_HIGH_WHEN_ONE_SET_PULLUP") @@
  (2 :> "PIN_IS_NOT_LOW_WHEN_DRIVEN_LOW") @@
  (3 :> "PIN_IS_NOT_HIGH_WHEN_DRIVEN_HIGH") @@
  (4 :> "PIN_IS_NOT_LOW_WHEN_ALLPULLUP_LOW") @@
  (5 :> "PIN_IS_NOT_HIGH_WHEN_ALLPULLDOWN_HIGH")

\* conn.get('masked', False) and conn.get('phase_masked', False)
is_masked(conn) == IF "masked" \in DOMAIN conn THEN conn.masked ELSE FALSE
is_phase_masked(conn) == IF "phase_masked" \in DOMAIN conn THEN conn.phase_masked ELSE FALSE

\* error_event and error_event not in pin['events']
pin_works(pin, phase) == phase_error_events[phase] \notin SeqToSet(pin.events)

\* the loops of create_phase_matrix from the i-th pin on; j = 0 is the step
\* that sets the diagonal cell, j >= 1 the j-th connection (lines 666-693)
RECURSIVE PhaseMatrixFrom(_, _, _, _, _)
PhaseMatrixFrom(df, device, phase, i, j) ==
  IF i > Len(device.pins) THEN df
  ELSE LET pin == device.pins[i]
       IN IF j = 0
          THEN PhaseMatrixFrom(IF pin_works(pin, phase) THEN SetCell(df, pin.pin, pin.pin, 1)
                               ELSE df,
                               device, phase, i, 1)
          ELSE IF j > Len(pin.connections)
          THEN PhaseMatrixFrom(df, device, phase, i + 1, 0)
          ELSE LET conn == pin.connections[j]
               IN IF /\ conn.type = CONNECTION_TYPE_INTERNAL
                     /\ conn.parameter = phase
                     /\ InLabels(conn.other_pin, df.cols)
                     /\ pin_works(pin, phase)
                  THEN PhaseMatrixFrom(
                         SetCell(df, pin.pin, conn.other_pin,
                                 IF is_phase_masked(conn) THEN 3
                                 ELSE IF is_masked(conn) THEN 2
                                 ELSE 1),
                         device, phase, i, j + 1)
                  ELSE PhaseMatrixFrom(df, device, phase, i, j + 1)

create_phase_matrix(devs, controller, phase) ==
  IF controller \notin DOMAIN devs THEN NoMatrix
  ELSE IF ~(0 <= phase /\ phase <= 5) THEN NoMatrix
  ELSE PhaseMatrixFrom(DataFrame(PinNumbers(devs[controller]), PinNumbers(devs[controller])),
                       devs[controller], phase, 1, 0)

(***************************************************************************)
(* connection_analyzer.py: analyze_connections.  A vector is <<x, y>>; the *)
(* pair_connections dictionary is the sequence of its values in insertion  *)
(* order (its keys are the pairs <<pin_a, pin_b>>); the display names and  *)
(* labels, which are functions of the pin numbers, are left out.           *)
(***************************************************************************)
\* PHASE_VECTORS (lines 12-19)
PHASE_VECTORS ==
  (0 :> [A_to_B |-> <<-1, 1>>, B_to_A |-> <<1, 1>>]) @@
  (1 :> [A_to_B |-> <<-1, -1>>, B_to_A |-> <<1, -1>>]) @@
  (2 :> [A_to_B |-> <<-2, 2>>, B_to_A |-> <<2, 2>>]) @@
  (3 :> [A_to_B |-> <<-2, -2>>, B_to_A |-> <<2, -2>>]) @@
  (4 :> [A_to_B |-> <<-3, 3>>, B_to_A |-> <<3, 3>>]) @@
  (5 :> [A_to_B |-> <<-3, -3>>, B_to_A |-> <<3, -3>>])

min(a, b) == IF a <= b THEN a ELSE b
max(a, b) == IF a >= b THEN a ELSE b

\* the body of the loop for one internal connection of a valid phase
\* (lines 59-79)
AddPairVector(pair_connections, source_pin, target_pin, phase) ==
  LET pin_a == min(source_pin, target_pin)
      pin_b == max(source_pin, target_pin)
      found == { k \in 1..Len(pair_connections) :
                   /\ pair_connections[k].pin_a = pin_a
                   /\ pair_connections[k].pin_b = pin_b }
      pairs == IF found = {}
               THEN Append(pair_connections,
                           [pin_a |-> pin_a, pin_b |-> pin_b, a_to_b_vectors |-> << >>,
                            b_to_a_vectors |-> << >>, phases |-> {}])
               ELSE pair_connections
      k == IF found = {} THEN Len(pairs) ELSE SetMin(found)
      entry == << IF source_pin = pin_a THEN PHASE_VECTORS[phase].A_to_B
                  ELSE PHASE_VECTORS[phase].B_to_A, phase >>
  IN IF source_pin = pin_a
     THEN [pairs EXCEPT ![k].phases = @ \cup {phase},
                        ![k].a_to_b_vectors = Append(@, entry)]
     ELSE [pairs EXCEPT ![k].phases = @ \cup {phase},
                        ![k].b_to_a_vectors = Append(@, entry)]

\* the loops over the pins and their connections, from connection j of pin i
\* on (lines 34-79)
RECURSIVE PairConnectionsFrom(_, _, _, _)
PairConnectionsFrom(pair_connections, pins, i, j) ==
  IF i > Len(pins) THEN pair_connections
  ELSE IF j > Len(pins[i].connections)
  THEN PairConnectionsFrom(pair_connections, pins, i + 1, 1)
  ELSE LET conn == pins[i].connections[j]
       IN IF \/ is_masked(conn)
             \/ is_phase_masked(conn)
             \/ Get(conn, "type", 0) # CONNECTION_TYPE_INTERNAL
             \/ Get(conn, "parameter", -1) \notin DOMAIN PHASE_VECTORS
          THEN PairConnectionsFrom(pair_connections, pins, i, j + 1)
          ELSE PairConnectionsFrom(
                 AddPairVector(pair_connections, pins[i].pin, conn.other_pin,
                               conn.parameter),
                 pins, i, j + 1)

group1_phases == {0, 2, 4}
group2_phases == {1, 3, 5}

\* [vector for vector, phase in vectors if phase in group_phases]
RECURSIVE GroupVectors(_, _)
GroupVectors(vectors, group_phases) ==
  IF vectors = << >> THEN << >>
  ELSE (IF Head(vectors)[2] \in group_phases THEN << Head(vectors)[1] >> ELSE << >>)
       \o GroupVectors(Tail(vectors), group_phases)

\* sum(v[c] for v in group_vectors)
RECURSIVE sum(_, _)
sum(group_vectors, c) ==
  IF group_vectors = << >> THEN 0
  ELSE Head(group_vectors)[c] + sum(Tail(group_vectors), c)

\* one of the four blocks of lines 99-157: the entry appended to
\* grouped_vectors for a direction and a group, or nothing
GroupedVector(vectors, group_phases, group, direction) ==
  LET group_vectors == GroupVectors(vectors, group_phases)
      sum_x == sum(group_vectors, 1)
      sum_y == sum(group_vectors, 2)
  IN IF group_vectors # << >> /\ (sum_x # 0 \/ sum_y # 0)
     THEN << [value |-> <<sum_x, sum_y>>, group |-> group, direction |-> direction] >>
     ELSE << >>

\* sorted(set(phase for _, phase in vectors))
RECURSIVE sorted(_)
sorted(S) == IF S = {} THEN << >> ELSE << SetMin(S) >> \o sorted(S \ {SetMin(S)})

PhasesOf(vectors) == sorted({ vectors[k][2] : k \in 1..Len(vectors) })

\* the loop over pair_connections from the k-th pair on (lines 82-181)
RECURSIVE SummaryFrom(_, _)
SummaryFrom(pair_connections, k) ==
  IF k > Len(pair_connections) THEN << >>
  ELSE LET data == pair_connections[k]
           grouped_vectors ==
             GroupedVector(data.a_to_b_vectors, group1_phases, 1, "A_to_B")
             \o GroupedVector(data.a_to_b_vectors, group2_phases, 2, "A_to_B")
             \o GroupedVector(data.b_to_a_vectors, group1_phases, 1, "B_to_A")
             \o GroupedVector(data.b_to_a_vectors, group2_phases, 2, "B_to_A")
       IN (IF /\ grouped_vectors # << >>
              /\ (data.a_to_b_vectors # << >> \/ data.b_to_a_vectors # << >>)
           THEN << [pin_a |-> data.pin_a,
                    pin_b |-> data.pin_b,
                    grouped_vectors |-> grouped_vectors,
                    a_to_b_phases |-> PhasesOf(data.a_to_b_vectors),
                    b_to_a_phases |-> PhasesOf(data.b_to_a_vectors),
                    total_count |-> Len(grouped_vectors)] >>
           ELSE << >>)
          \o SummaryFrom(pair_connections, k + 1)

\* analyze_connections(collector) (lines 23-186)
analyze_connections(devs) ==
  [ device_family \in DOMAIN devs |->
      SummaryFrom(PairConnectionsFrom(<< >>, devs[device_family].pins, 1, 1), 1) ]

\* the completion check counting the full sessions among those received
SessionsDone_any_session(device) ==
  Cardinality({ s_id \in DOMAIN device.received_sessions :
                  Cardinality(device.received_sessions[s_id]) = device.total_chunks })

\* the completion check of process_chunk (lines 307-311)
SessionsDone(device) ==
  Cardinality({ s_id \in 0..(device.expected_sessions - 1) :
                  /\ s_id \in DOMAIN device.received_sessions
                  /\ Cardinality(device.received_sessions[s_id]) = device.total_chunks })

\* process_chunk from the storing of the raw bytes to the end (lines 267-318)
AcceptChunk(devs, cur, chunk_result) ==
  LET chunk_data == chunk_result.data
      device == devs[cur]
      chunk_id == Get(chunk_data, KEY_CHUNK_ID, Get(chunk_result, "packet_id", -1))
      session_id == Get(chunk_data, KEY_STREAM_NUMBER, 0)
      received == Get(device.received_sessions, session_id, {})
      raw == Get(device.raw_session_chunks, session_id, << >>)
      stored == [device EXCEPT
        !.raw_session_chunks = Put(device.raw_session_chunks, session_id,
            Put(raw, chunk_id, Get(chunk_result, "raw_bytes", EmptyBytes))),
        !.pins = MergePinEntries(device.pins, Get(chunk_data, KEY_PINS, << >>), 1),
        !.received_sessions = Put(device.received_sessions, session_id,
            received \cup {chunk_id})]
      checked == [stored EXCEPT
        !.complete = (SessionsDone(stored) = stored.expected_sessions)]
      devs2 == Put(devs, cur, checked)
  IN [devices |-> IF checked.complete
                  THEN _filter_weak_connections(devs2, cur, cur)
                  ELSE devs2,
      ret |-> TRUE]

\* process_chunk from the reading of the ids, without the duplicate test
StoreChunk_no_duplicate_test(devs, cur, chunk_result) ==
  AcceptChunk(devs, cur, chunk_result)

\* process_chunk from the reading of the ids to the end (lines 257-318)
StoreChunk(devs, cur, chunk_result) ==
  LET chunk_id == Get(chunk_result.data, KEY_CHUNK_ID, Get(chunk_result, "packet_id", -1))
      session_id == Get(chunk_result.data, KEY_STREAM_NUMBER, 0)
  IN IF chunk_id \in Get(devs[cur].received_sessions, session_id, {})
     THEN [devices |-> devs, ret |-> FALSE]
     ELSE AcceptChunk(devs, cur, chunk_result)

\* process_chunk that creates the record of a family it does not know
process_chunk_default_device(devs, cur, chunk_result) ==
  IF ~chunk_result.hash_valid
  THEN [devices |-> devs, ret |-> FALSE]
  ELSE IF cur \notin DOMAIN devs
       THEN StoreChunk(Put(devs, cur, NewDevice([data |-> << >>])), cur, chunk_result)
       ELSE StoreChunk(devs, cur, chunk_result)

\* process_chunk that keeps the record of the current family alone
process_chunk_drops_other_families(devs, cur, chunk_result) ==
  IF ~chunk_result.hash_valid \/ ~TruthyFamily(cur)
  THEN [devices |-> devs, ret |-> FALSE]
  ELSE IF cur \notin DOMAIN devs
  THEN [devices |-> devs, ret |-> FALSE]
  ELSE LET stored == StoreChunk(devs, cur, chunk_result)
       IN [devices |-> IF stored.ret
                       THEN Put(<< >>, cur, stored.devices[cur])
                       ELSE devs,
           ret |-> stored.ret]

process_chunk(devs, cur, chunk_result) ==
  IF ~chunk_result.hash_valid \/ ~TruthyFamily(cur)
  THEN [devices |-> devs, ret |-> FALSE]
  ELSE IF cur \notin DOMAIN devs
  THEN [devices |-> devs, ret |-> FALSE]
  ELSE StoreChunk(devs, cur, chunk_result)

\* the families is_complete hands to save_device_report
Unsaved(devs) == { f \in DOMAIN devs : devs[f].complete /\ ~devs[f].saved }

RECURSIVE SetToSeq(_)
SetToSeq(S) == IF S = {} THEN << >>
               ELSE LET x == CHOOSE y \in S : TRUE IN << x >> \o SetToSeq(S \ {x})

\* is_complete that reports the devices without setting their saved flag
is_complete_leaves_unsaved(devs, reps) ==
  [devices |-> devs, reports |-> reps \o SetToSeq(Unsaved(devs)), ret |-> FALSE]

is_complete(devs, reps) ==
  [devices |-> [ f \in DOMAIN devs |->
                   IF f \in Unsaved(devs) THEN [devs[f] EXCEPT !.saved = TRUE] ELSE devs[f] ],
   reports |-> reps \o SetToSeq(Unsaved(devs)),
   ret |-> FALSE]

(***************************************************************************)
(* concurrent_monitor.py: the codec's result record and the ACK sender     *)
(***************************************************************************)
\* the record parse_header_packet returns (lines 61-77)
header_result(decoded, received_hash, calculated_hash) ==
  [ack_requested |-> Get(decoded, ACK_REQUESTED, 0),
   data |-> decoded,
   hash_valid |-> (received_hash = calculated_hash),
   received_hash |-> received_hash,
   calculated_hash |-> calculated_hash]

\* the record parse_chunk_packet returns (lines 99-116)
chunk_result(packet_id, decoded, received_hash, calculated_hash) ==
  [ack_requested |-> Get(decoded, ACK_REQUESTED, 0),
   packet_id |-> packet_id,
   data |-> decoded,
   hash_valid |-> (received_hash = calculated_hash),
   received_hash |-> received_hash,
   calculated_hash |-> calculated_hash]

\* the key "error" of the map the codec substitutes for an undecodable body;
\* the keys the code reads are the CBOR integer keys, which are all >= 0
ERROR_KEY == -2

\* a packet body as the codec sees it: kind "map" decodes to the map it
\* carries, "undecodable" makes cbor2.loads raise, "not_a_map" decodes to a
\* CBOR item that is no map (an integer, a list)
CborBytes(kind, map) == [kind |-> kind, map |-> map]

\* the payload between two markers: [PACKET_ID][LENGTH][CBOR][CRC], with the
\* CRC-32 of the CBOR bytes beside the received one
HexData(packet_id, cbor_bytes, received_hash, calculated_hash) ==
  [packet_id |-> packet_id, cbor_bytes |-> cbor_bytes,
   received_hash |-> received_hash, calculated_hash |-> calculated_hash]

\* try: cbor2.loads(cbor_bytes) except: {"error": "cbor decode failed"}
cbor2_loads(cbor_bytes) ==
  IF cbor_bytes.kind = "undecodable"
  THEN (ERROR_KEY :> "cbor decode failed")
  ELSE cbor_bytes.map

\* data[a:b] of Python on a byte sequence
Slice(data, a, b) ==
  SubSeq(data, min(a, Len(data)) + 1, min(b, Len(data)))

\* int.from_bytes(bytes, "little") of at most four bytes, as <<low, high>>
from_bytes(bytes) ==
  LET byte(i) == IF i <= Len(bytes) THEN bytes[i] ELSE 0
  IN << byte(1) + 256 * byte(2), byte(3) + 256 * byte(4) >>

\* the CBOR items of the model's raw bytes: no byte at all and a map cut
\* short do not decode; 0x00..0x17 is a small integer; 0xA0 is the empty
\* map; 0xA1 k v with small integers k, v is the map {k: v}
cbor_item(cbor_bytes) ==
  IF cbor_bytes = << >> THEN CborBytes("undecodable", << >>)
  ELSE IF cbor_bytes[1] <= 23 THEN CborBytes("not_a_map", << >>)
  ELSE IF cbor_bytes[1] = 160 THEN CborBytes("map", << >>)
  ELSE IF /\ cbor_bytes[1] = 161 /\ Len(cbor_bytes) >= 3
          /\ cbor_bytes[2] <= 23 /\ cbor_bytes[3] <= 23
  THEN CborBytes("map", (cbor_bytes[2] :> cbor_bytes[3]))
  ELSE CborBytes("undecodable", << >>)

\* the slicing both parsers do on raw bytes, after id_bytes bytes of packet
\* id (lines 50-61, 85-99): the length, the CBOR bytes, the received
\* checksum and the CRC-32 of the CBOR bytes, both as <<low, high>>
PacketLayout(data, id_bytes) ==
  LET length == from_bytes(Slice(data, id_bytes, id_bytes + 2))[1]
      cbor_bytes == Slice(data, id_bytes + 2, id_bytes + 2 + length)
  IN HexData(from_bytes(Slice(data, 0, id_bytes))[1],
             cbor_item(cbor_bytes),
             from_bytes(Slice(data, id_bytes + 2 + length, id_bytes + 2 + length + 4)),
             calculate_crc(cbor_bytes))

\* parse_header_packet: none is TRUE when an exception made it return None
\* (decoded.get on an item that is no map)
parse_header_packet(hex_data) ==
  LET fields == IF "raw" \in DOMAIN hex_data THEN PacketLayout(hex_data.raw, 0)
                ELSE hex_data
  IN IF fields.cbor_bytes.kind = "not_a_map"
     THEN [none |-> TRUE, result |-> << >>]
     ELSE [none |-> FALSE,
           result |-> header_result(cbor2_loads(fields.cbor_bytes),
                                    fields.received_hash, fields.calculated_hash)]

\* parse_chunk_packet, likewise
parse_chunk_packet(hex_data) ==
  LET fields == IF "raw" \in DOMAIN hex_data THEN PacketLayout(hex_data.raw, 1)
                ELSE hex_data
  IN IF fields.cbor_bytes.kind = "not_a_map"
     THEN [none |-> TRUE, result |-> << >>]
     ELSE [none |-> FALSE,
           result |-> chunk_result(fields.packet_id, cbor2_loads(fields.cbor_bytes),
                                   fields.received_hash, fields.calculated_hash)]

\* int.to_bytes(4, 'little')
to_bytes_4_little(n) ==
  << n % 256, (n \div 256) % 256, (n \div 65536) % 256, (n \div 16777216) % 256 >>

\* send_ack: one write of ACK_START + received_hash + ACK_END
send_ack(out, received_hash) ==
  Append(out, to_bytes_4_little(ACK_START) \o to_bytes_4_little(received_hash)
              \o to_bytes_4_little(ACK_END))

\* the ACK branch without the hash_valid test
AckBranch_ignores_validity(out, result) ==
  IF TruthyInt(Get(result, "ack_requested", 1))
  THEN send_ack(out, result.received_hash)
  ELSE out

\* the ACK branch that ends both packet handlers (lines 215-222, 275-282)
AckBranch(out, result) ==
  IF TruthyInt(Get(result, "ack_requested", 1))
  THEN IF result.hash_valid THEN send_ack(out, result.received_hash) ELSE out
  ELSE out

(***************************************************************************)
(* The packets the model feeds to the processor.                           *)
(***************************************************************************)
\* a field of the CBOR map that the packet does not carry
Absent == -1

Opt(k, v, absent) == IF v = absent THEN << >> ELSE (k :> v)

HeaderData(family, total_chunks, expected_sessions, uuid, version, ack) ==
  Opt(HEADER_KEY_DEVICE_FAMILY, family, None)
  @@ Opt(HEADER_KEY_TOTAL_CHUNKS, total_chunks, Absent)
  @@ Opt(HEADER_KEY_EXPECTED_SESSIONS, expected_sessions, Absent)
  @@ Opt(HEADER_KEY_DEVICE_UUID, uuid, None)
  @@ Opt(HEADER_KEY_VERSION, version, None)
  @@ Opt(ACK_REQUESTED, ack, Absent)

Conn(other_pin, parameter, type) ==
  (KEY_OTHER_PIN :> other_pin) @@ (KEY_CONNECTION_PARAMETER :> parameter)
  @@ (KEY_CONNECTION_TYPE :> type)

PinEntry(pin, events, connections) ==
  (KEY_PIN :> pin) @@ (KEY_EVENTS :> events) @@ (KEY_CONNECTIONS :> connections)

\* the pin lists chunks carry in the model
PinLists ==
  << << >>,
     << PinEntry(4, 1, << Conn(5, 1, CONNECTION_TYPE_INTERNAL) >>) >>,
     << PinEntry(5, 0, << >>),
        PinEntry(4, 66564, << Conn(5, 2, CONNECTION_TYPE_INTERNAL),
                              Conn(7, 1, CONNECTION_TYPE_EXTERNAL) >>) >> >>

ChunkData(chunk_id, session_id, pins, ack) ==
  Opt(KEY_CHUNK_ID, chunk_id, Absent)
  @@ Opt(KEY_STREAM_NUMBER, session_id, Absent)
  @@ (KEY_PINS :> pins)
  @@ Opt(ACK_REQUESTED, ack, Absent)


(***************************************************************************)
(* State                                                                   *)
(***************************************************************************)
NoOp == [op |-> "none", ret |-> FALSE, hash_valid |-> FALSE, ack_requested |-> FALSE,
         received_hash |-> 0, dup |-> FALSE, merged |-> FALSE, discarded |-> FALSE,
         filtered |-> FALSE]

\* DeviceDataCollector() and an open port nothing has been written to
InitCollector ==
  /\ devices = << >>
  /\ current_device_family = None
  /\ ser_out = << >>
  /\ reports = << >>
  /\ sent = {}
  /\ transitions = << >>
  /\ packets = 0
  /\ headers = 0
  /\ last = NoOp

\* monitor_serial after it has started both threads (lines 303-327) and
\* packet_processor's locals (lines 143-147); stream is the serial input
InitTasks(stream) ==
  /\ data_queue = << >>
  /\ stop_event = FALSE
  /\ reader_pc = "loop"
  /\ new_data = << >>
  /\ processor_pc = "loop"
  /\ main_pc = "poll"
  /\ ser_in = stream
  /\ buffer = << >>
  /\ packet_data = << >>
  /\ receiving_header = FALSE
  /\ receiving_chunk = FALSE
  /\ pushed = << >>
  /\ consumed = << >>
  /\ handed = << >>
  /\ emitted = << >>
  /\ debug_buffer = << >>
  /\ calls = << >>

\* the decoder before any call of its own: decode_event_type_one_hot(0) is []
InitDecoder ==
  /\ bitmask = Words(0)
  /\ event_names = << >>
  /\ event_list = << >>
  /\ analyzed = << >>
  /\ pin_strength = analyze_pin(<< >>)
  /\ crc_message = << >>
  /\ crc_fast = crcFast(<< >>)
  /\ crc_codec = calculate_crc(<< >>)
  /\ matrix_call = [op |-> "none"]
  /\ matrix = NoMatrix
  /\ results = << >>

Init == InitCollector /\ InitTasks(<< >>) /\ InitDecoder

\* the HEADER_END branch of packet_processor for a parsed header (lines 196-222)
HeaderEnd(decoded, received_hash, calculated_hash) ==
  /\ UNCHANGED <<taskvars, decodervars>>
  /\ headers' = headers + 1
  /\ LET result == header_result(decoded, received_hash, calculated_hash)
         ph == process_header(devices, current_device_family, result)
     IN /\ devices' = ph.devices
        /\ current_device_family' = ph.current
        /\ ser_out' = AckBranch(ser_out, result)
        /\ reports' = reports
        /\ sent' = IF ph.ret THEN {} ELSE sent
        /\ transitions' = IF ph.ret THEN Put(transitions, ph.current, 0) ELSE transitions
        /\ packets' = packets + 1
        /\ last' = [op |-> "header", ret |-> ph.ret, hash_valid |-> result.hash_valid,
                    ack_requested |-> TruthyInt(result.ack_requested),
                    received_hash |-> result.received_hash,
                    dup |-> FALSE, merged |-> FALSE,
                    discarded |-> /\ ph.ret
                                  /\ ph.current \in DOMAIN devices
                                  /\ devices[ph.current].received_sessions # << >>,
                    filtered |-> FALSE]

\* (session id, chunk id) as process_chunk reads them from a result (lines 257-258)
ChunkKey(result) ==
  << Get(result.data, KEY_STREAM_NUMBER, 0),
     Get(result.data, KEY_CHUNK_ID, Get(result, "packet_id", -1)) >>

\* the pair of a result is already recorded for the current device
AlreadyRecorded(devs, cur, result) ==
  /\ cur \in DOMAIN devs
  /\ ChunkKey(result)[2] \in Get(devs[cur].received_sessions, ChunkKey(result)[1], {})

\* some pin entry of the result names a pin the current device already holds
CarriesKnownPin(devs, cur, result) ==
  /\ cur \in DOMAIN devs
  /\ \E i \in 1..Len(Get(result.data, KEY_PINS, << >>)) :
       \E j \in 1..Len(devs[cur].pins) :
         devs[cur].pins[j].pin = Get(Get(result.data, KEY_PINS, << >>)[i], KEY_PIN, NoneInt)

\* the CHUNK_END branch of packet_processor for a parsed chunk (lines 236-282)
ChunkEnd(packet_id, decoded, received_hash, calculated_hash) ==
  /\ UNCHANGED <<taskvars, decodervars>>
  /\ headers' = headers
  /\ LET result == chunk_result(packet_id, decoded, received_hash, calculated_hash)
         pc == process_chunk(devices, current_device_family, result)
         ic == is_complete(pc.devices, reports)
     IN /\ devices' = ic.devices
        /\ current_device_family' = current_device_family
        /\ ser_out' = AckBranch(ser_out, result)
        /\ reports' = ic.reports
        /\ sent' = IF result.hash_valid THEN sent \cup {ChunkKey(result)} ELSE sent
        /\ transitions' = [ f \in DOMAIN transitions |->
                             IF ~devices[f].complete /\ ic.devices[f].complete
                             THEN transitions[f] + 1 ELSE transitions[f] ]
        /\ packets' = packets + 1
        /\ last' = [op |-> "chunk", ret |-> pc.ret, hash_valid |-> result.hash_valid,
                    ack_requested |-> TruthyInt(result.ack_requested),
                    received_hash |-> result.received_hash,
                    dup |-> result.hash_valid /\ TruthyFamily(current_device_family)
                            /\ AlreadyRecorded(devices, current_device_family, result),
                    merged |-> pc.ret /\ CarriesKnownPin(devices, current_device_family, result),
                    discarded |-> FALSE,
                    filtered |-> pc.ret /\ pc.devices[current_device_family].complete]

\* the received and the computed checksums the model draws from
Checksums == << 16909060, 84281096 >>
H1 == Checksums[1]
H2 == Checksums[2]

(***************************************************************************)
(* Spec: the completion state machine.  Checksum-valid headers with every  *)
(* total_chunks / expected_sessions value, for a family process_chunk      *)
(* treats as active and for the empty family id; chunks without pins.      *)
(***************************************************************************)
Families == {"NRF", ""}
Totals == {Absent, 0, 1, 2}
ChunkIds == {Absent, 0, 1, 2}
SessionIds == {Absent, 0, 1}
\* the packet id byte of the chunk frames
PacketId == 1

HeaderInputs ==
  { HeaderData(f, n, s, None, None, Absent) : f \in Families, n \in Totals, s \in Totals }

ChunkInputs ==
  { ChunkData(c, s, PinLists[1], Absent) : c \in ChunkIds, s \in SessionIds }

Next ==
  \/ /\ packets < MaxPackets
     /\ headers < MaxHeaders
     /\ \E d \in HeaderInputs : HeaderEnd(d, H1, H1)
  \/ /\ packets < MaxPackets
     /\ \E d \in ChunkInputs : ChunkEnd(PacketId, d, H1, H1)

Spec == Init /\ [][Next]_vars

(***************************************************************************)
(* SpecPins: pin records.  Two families, chunks that carry pin entries     *)
(* and connections.                                                        *)
(***************************************************************************)
PinFamilies == {"NRF", "MSP"}

PinHeaderInputs ==
  { HeaderData(f, n, Absent, u[1], u[2], Absent) :
      f \in PinFamilies, n \in {1, 2}, u \in { <<None, None>>, <<"U1", "v1">> } }

PinChunkInputs ==
  { ChunkData(c, Absent, PinLists[p], Absent) : c \in {0, 1}, p \in 1..Len(PinLists) }

NextPins ==
  \/ /\ packets < MaxPackets
     /\ headers < MaxHeaders
     /\ \E d \in PinHeaderInputs : HeaderEnd(d, H1, H1)
  \/ /\ packets < MaxPackets
     /\ \E d \in PinChunkInputs : ChunkEnd(PacketId, d, H1, H1)

SpecPins == Init /\ [][NextPins]_vars

(***************************************************************************)
(* SpecAck: rejected packets and acknowledgements.  Received and computed  *)
(* checksums that agree or differ, headers with and without a family id,   *)
(* packets that request an ACK or not.                                      *)
(***************************************************************************)
AckHeaderInputs ==
  { HeaderData(f, 1, Absent, None, None, a) : f \in {"NRF", None}, a \in {Absent, 0, 1} }

AckChunkInputs ==
  { ChunkData(c, Absent, PinLists[2], a) : c \in {Absent, 0}, a \in {Absent, 0, 1} }

ChecksumPairs == { <<H1, H1>>, <<H2, H2>>, <<H1, H2>> }

NextAck ==
  \/ /\ packets < MaxPackets
     /\ headers < MaxHeaders
     /\ \E d \in AckHeaderInputs, h \in ChecksumPairs : HeaderEnd(d, h[1], h[2])
  \/ /\ packets < MaxPackets
     /\ \E d \in AckChunkInputs, h \in ChecksumPairs : ChunkEnd(PacketId, d, h[1], h[2])

SpecAck == Init /\ [][NextAck]_vars

(***************************************************************************)
(* concurrent_monitor.py: the framing loop of packet_processor             *)
(***************************************************************************)
\* the four markers, byte by byte
HEADER_START == << 12, 11, 10, 9 >>
HEADER_END == << 16, 15, 14, 13 >>
CHUNK_START == << 4, 3, 2, 1 >>
CHUNK_END == << 8, 7, 6, 5 >>

\* The payloads of the model. One byte of the model above 100 stands for the
\* whole byte run [PACKET_ID][LENGTH][CBOR][CRC] of one packet: a header that
\* names family NRF with one chunk and asks for an ACK, a header whose body
\* is a CBOR item that is no map, a header with a wrong checksum, a chunk
\* with pins that asks for an ACK, a chunk whose body is no map and a chunk
\* whose body does not decode.
Payloads ==
  (101 :> HexData(PacketId, CborBytes("map", HeaderData("NRF", 1, Absent, None, None, 1)), H1, H1))
  @@ (102 :> HexData(PacketId, CborBytes("not_a_map", << >>), H1, H1))
  @@ (103 :> HexData(PacketId, CborBytes("map", HeaderData("NRF", 1, Absent, None, None, 1)), H1, H2))
  @@ (104 :> HexData(PacketId, CborBytes("map", ChunkData(0, Absent, PinLists[2], 1)), H2, H2))
  @@ (105 :> HexData(PacketId, CborBytes("not_a_map", << >>), H2, H2))
  @@ (106 :> HexData(PacketId, CborBytes("undecodable", << >>), H2, H2))

\* packet_data.hex() as the codec reads it: the parsed fields of a payload
\* of the model, or the raw bytes, which the parsers slice themselves
hex(data) ==
  IF Len(data) = 1 /\ data[1] \in DOMAIN Payloads
  THEN Payloads[data[1]]
  ELSE [raw |-> data]

\* the markers among the recorded calls
Markers(log) == { k \in 1..Len(log) : log[k].op = "marker" }

\* the calls ops, made one after the other, each with the number of the
\* marker it is made for (a marker's own number, or that of the marker last
\* taken from the buffer)
RECURSIVE Called(_, _)
Called(log, ops) ==
  IF ops = << >> THEN log
  ELSE Called(Append(log, [op |-> Head(ops),
                           marker |-> Cardinality(Markers(log))
                                      + (IF Head(ops) = "marker" THEN 1 ELSE 0)]),
              Tail(ops))

\* a HEADER_END branch that writes the ACK before the Collector is called
HeaderEndCalls_ack_first(acked) ==
  (IF acked THEN << "send_ack" >> ELSE << >>) \o << "process_header" >>

\* the calls of the HEADER_END branch for a parsed header (lines 212-222)
HeaderEndCalls(acked) ==
  << "process_header" >> \o (IF acked THEN << "send_ack" >> ELSE << >>)

\* the calls of the CHUNK_END branch for a parsed chunk (lines 267-282);
\* the export is made by is_complete itself (data_storage.py lines 489-496)
ChunkEndCalls(exported, acked) ==
  << "process_chunk", "is_complete" >>
  \o (IF exported THEN << "save_device_report" >> ELSE << >>)
  \o (IF acked THEN << "send_ack" >> ELSE << >>)

\* the record of one call of parse_header_packet (line 196) or
\* parse_chunk_packet (line 234): the parser, the bytes it was given and the
\* two flags as the end marker found them
ParserCall(kind, st) ==
  [kind |-> kind, packet_data |-> st.packet_data,
   receiving_header |-> st.receiving_header, receiving_chunk |-> st.receiving_chunk]

\* the HEADER_END branch (lines 192-224); raised: result.get on None raised
\* (line 199) and the rest of the branch was skipped
HeaderEndBranch(st) ==
  LET st1 == [st EXCEPT !.receiving_header = FALSE,
                        !.calls = Called(@, << "marker" >>),
                        !.emitted = IF st.packet_data = << >> THEN @
                                    ELSE Append(@, ParserCall("header", st))]
      parsed == parse_header_packet(hex(st.packet_data))
      ph == process_header(st.devices, st.current, parsed.result)
  IN IF st.packet_data = << >>
     THEN [st1 EXCEPT !.buffer = SubSeq(st.buffer, 5, Len(st.buffer))]
     ELSE IF parsed.none
     THEN [st1 EXCEPT !.raised = TRUE]
     ELSE [st1 EXCEPT !.devices = ph.devices,
                      !.current = ph.current,
                      !.ser_out = AckBranch(st.ser_out, parsed.result),
                      !.calls = Called(@, HeaderEndCalls(
                                            AckBranch(st.ser_out, parsed.result) # st.ser_out)),
                      !.handed = Append(st.handed, st.packet_data),
                      !.packet_data = << >>,
                      !.buffer = SubSeq(st.buffer, 5, Len(st.buffer))]

\* the CHUNK_END branch (lines 232-284)
ChunkEndBranch(st) ==
  LET st1 == [st EXCEPT !.receiving_chunk = FALSE,
                        !.calls = Called(@, << "marker" >>),
                        !.emitted = IF st.packet_data = << >> THEN @
                                    ELSE Append(@, ParserCall("chunk", st)),
                        !.packet_data = << >>,
                        !.buffer = SubSeq(st.buffer, 5, Len(st.buffer))]
      parsed == parse_chunk_packet(hex(st.packet_data))
      pc == process_chunk(st.devices, st.current, parsed.result)
      ic == is_complete(pc.devices, st.reports)
  IN IF st.packet_data = << >> \/ parsed.none
     THEN st1
     ELSE [st1 EXCEPT !.devices = ic.devices,
                      !.reports = ic.reports,
                      !.ser_out = AckBranch(st.ser_out, parsed.result),
                      !.calls = Called(@, ChunkEndCalls(
                                            ic.reports # st.reports,
                                            AckBranch(st.ser_out, parsed.result) # st.ser_out)),
                      !.handed = Append(st.handed, st.packet_data)]

\* a start branch that goes on with the bytes accumulated so far
StartBranch_keeps_bytes(st, kind) ==
  [st EXCEPT !.receiving_header = IF kind = "header" THEN TRUE ELSE @,
             !.receiving_chunk = IF kind = "chunk" THEN TRUE ELSE @,
             !.calls = Called(@, << "marker" >>),
             !.buffer = SubSeq(st.buffer, 5, Len(st.buffer))]

\* the HEADER_START branch (lines 186-190) and the CHUNK_START branch
\* (lines 226-230)
StartBranch(st, kind) ==
  [st EXCEPT !.receiving_header = IF kind = "header" THEN TRUE ELSE @,
             !.receiving_chunk = IF kind = "chunk" THEN TRUE ELSE @,
             !.calls = Called(@, << "marker" >>),
             !.packet_data = << >>,
             !.buffer = SubSeq(st.buffer, 5, Len(st.buffer))]

\* the loop over the buffer (lines 185-292), until fewer than four bytes are
\* left or an exception ends the iteration
RECURSIVE Scan(_)
Scan(st) ==
  IF Len(st.buffer) < 4 \/ st.raised THEN st
  ELSE IF SubSeq(st.buffer, 1, 4) = HEADER_START
  THEN Scan(StartBranch(st, "header"))
  ELSE IF SubSeq(st.buffer, 1, 4) = HEADER_END
  THEN Scan(HeaderEndBranch(st))
  ELSE IF SubSeq(st.buffer, 1, 4) = CHUNK_START
  THEN Scan(StartBranch(st, "chunk"))
  ELSE IF SubSeq(st.buffer, 1, 4) = CHUNK_END
  THEN Scan(ChunkEndBranch(st))
  ELSE IF st.receiving_header \/ st.receiving_chunk
  THEN Scan([st EXCEPT !.packet_data = Append(st.packet_data, st.buffer[1]),
                       !.buffer = Tail(st.buffer)])
  ELSE Scan([st EXCEPT !.buffer = Tail(st.buffer)])

(***************************************************************************)
(* concurrent_monitor.py: the queue, the two tasks and the supervisor      *)
(***************************************************************************)
\* capacity of data_queue; queue.Queue(maxsize=1000) in the code (line 305),
\* scaled down so that the model fills the queue
maxsize == 3

\* Queue.put once there is room, and Queue.get_nowait on a queue that holds
\* something
put(q, item) == Append(q, item)

\* get_nowait that takes the newest item
get_nowait_newest(q) == [item |-> q[Len(q)], rest |-> SubSeq(q, 1, Len(q) - 1)]

get_nowait(q) == [item |-> Head(q), rest |-> Tail(q)]

\* serial_reader, one pass of its loop up to the put (lines 124-131): n is
\* ser.in_waiting. The test of stop_event and the pass it guards are one step.
ReaderLoop(n) ==
  /\ reader_pc = "loop"
  /\ IF stop_event
     THEN reader_pc' = "done" /\ UNCHANGED <<new_data, ser_in>>
     ELSE IF n = 0
     THEN UNCHANGED <<reader_pc, new_data, ser_in>>
     ELSE /\ new_data' = SubSeq(ser_in, 1, n)
          /\ ser_in' = SubSeq(ser_in, n + 1, Len(ser_in))
          /\ reader_pc' = "put"
  /\ UNCHANGED <<decodervars, collectorvars, data_queue, stop_event, processor_pc, main_pc, buffer,
                 packet_data, receiving_header, receiving_chunk, pushed, consumed, handed, emitted, debug_buffer, calls>>

\* data_queue.put(new_data) (line 129): returns once the queue has room
ReaderPut ==
  /\ reader_pc = "put"
  /\ Len(data_queue) < maxsize
  /\ data_queue' = put(data_queue, new_data)
  /\ pushed' = Append(pushed, new_data)
  /\ new_data' = << >>
  /\ reader_pc' = "loop"
  /\ UNCHANGED <<decodervars, collectorvars, stop_event, processor_pc, main_pc, ser_in, buffer,
                 packet_data, receiving_header, receiving_chunk, consumed, handed, emitted, debug_buffer, calls>>

\* the port raises in ser.in_waiting or ser.read: the reader leaves its loop
\* (lines 133-135)
ReaderFail ==
  /\ reader_pc = "loop"
  /\ ~stop_event
  /\ reader_pc' = "done"
  /\ UNCHANGED <<decodervars, collectorvars, data_queue, stop_event, new_data, processor_pc, main_pc,
                 ser_in, buffer, packet_data, receiving_header, receiving_chunk,
                 pushed, consumed, handed, emitted, debug_buffer, calls>>

\* ord('\n')
NEWLINE == 10

\* the length above which the debug buffer is cleared (line 174)
DEBUG_LIMIT == 1000

\* the body of the loop over new_data with no clearing of long lines
debug_byte_newline_only(debug_buffer_in, byte) ==
  IF byte = NEWLINE THEN << >> ELSE Append(debug_buffer_in, byte)

\* the body of the loop over new_data (lines 159-175); the DEBUG: line is
\* printed to the console only
debug_byte(debug_buffer_in, byte) ==
  LET appended == Append(debug_buffer_in, byte)
  IN IF byte = NEWLINE THEN << >>
     ELSE IF Len(appended) > DEBUG_LIMIT THEN << >>
     ELSE appended

\* for byte in new_data (line 159), from the i-th byte on
RECURSIVE ExtractDebug(_, _, _)
ExtractDebug(debug_buffer_in, data, i) ==
  IF i > Len(data) THEN debug_buffer_in
  ELSE IF Len(debug_buffer_in) >= 0
  THEN ExtractDebug(debug_byte(debug_buffer_in, data[i]), data, i + 1)
  ELSE debug_buffer_in

\* packet_processor, one pass of its loop (lines 152-295)
ProcessorLoop ==
  /\ processor_pc = "loop"
  /\ IF stop_event
     THEN /\ processor_pc' = "done"
          /\ UNCHANGED <<devices, current_device_family, ser_out, reports, data_queue,
                         buffer, packet_data, receiving_header, receiving_chunk,
                         consumed, handed, emitted, debug_buffer, calls>>
     ELSE IF data_queue = << >>
     THEN UNCHANGED <<devices, current_device_family, ser_out, reports, data_queue,
                      processor_pc, buffer, packet_data, receiving_header,
                      receiving_chunk, consumed, handed, emitted, debug_buffer, calls>>
     ELSE LET got == get_nowait(data_queue)
              st == Scan([buffer |-> buffer \o got.item,
                          packet_data |-> packet_data,
                          receiving_header |-> receiving_header,
                          receiving_chunk |-> receiving_chunk,
                          devices |-> devices,
                          current |-> current_device_family,
                          ser_out |-> ser_out,
                          reports |-> reports,
                          handed |-> handed,
                          emitted |-> emitted,
                          calls |-> calls,
                          raised |-> FALSE])
          IN /\ data_queue' = got.rest
             /\ consumed' = Append(consumed, got.item)
             /\ buffer' = st.buffer
             /\ packet_data' = st.packet_data
             /\ receiving_header' = st.receiving_header
             /\ receiving_chunk' = st.receiving_chunk
             /\ devices' = st.devices
             /\ current_device_family' = st.current
             /\ ser_out' = st.ser_out
             /\ reports' = st.reports
             /\ handed' = st.handed
             /\ emitted' = st.emitted
             /\ calls' = st.calls
             /\ debug_buffer' = ExtractDebug(debug_buffer, got.item, 1)
             /\ processor_pc' = "loop"
  /\ UNCHANGED <<decodervars, sent, transitions, packets, headers, last, stop_event, reader_pc,
                 new_data, main_pc, ser_in, pushed>>

\* the supervising loop that watches the processor thread only
MainPoll_watches_processor_only ==
  /\ main_pc = "poll"
  /\ processor_pc = "done"
  /\ main_pc' = "finally"
  /\ UNCHANGED <<decodervars, collectorvars, data_queue, stop_event, reader_pc, new_data, processor_pc,
                 ser_in, buffer, packet_data, receiving_header, receiving_chunk,
                 pushed, consumed, handed, emitted, debug_buffer, calls>>

\* monitor_serial's loop finds a thread that is no longer alive (lines 334-340)
MainPoll ==
  /\ main_pc = "poll"
  /\ reader_pc = "done" \/ processor_pc = "done"
  /\ main_pc' = "finally"
  /\ UNCHANGED <<decodervars, collectorvars, data_queue, stop_event, reader_pc, new_data, processor_pc,
                 ser_in, buffer, packet_data, receiving_header, receiving_chunk,
                 pushed, consumed, handed, emitted, debug_buffer, calls>>

\* KeyboardInterrupt in monitor_serial's loop (line 342)
KeyboardInterrupt ==
  /\ main_pc = "poll"
  /\ main_pc' = "finally"
  /\ UNCHANGED <<decodervars, collectorvars, data_queue, stop_event, reader_pc, new_data, processor_pc,
                 ser_in, buffer, packet_data, receiving_header, receiving_chunk,
                 pushed, consumed, handed, emitted, debug_buffer, calls>>

\* stop_event.set() (line 347)
MainFinally ==
  /\ main_pc = "finally"
  /\ stop_event' = TRUE
  /\ main_pc' = "join"
  /\ UNCHANGED <<decodervars, collectorvars, data_queue, reader_pc, new_data, processor_pc,
                 ser_in, buffer, packet_data, receiving_header, receiving_chunk,
                 pushed, consumed, handed, emitted, debug_buffer, calls>>

\* the two joins with their timeouts (lines 350-351): each returns when its
\* thread has ended or the two seconds are over
MainJoin ==
  /\ main_pc = "join"
  /\ main_pc' = "done"
  /\ UNCHANGED <<decodervars, collectorvars, data_queue, stop_event, reader_pc, new_data, processor_pc,
                 ser_in, buffer, packet_data, receiving_header, receiving_chunk,
                 pushed, consumed, handed, emitted, debug_buffer, calls>>

(***************************************************************************)
(* SpecStream: serial_reader and packet_processor on streams of framed     *)
(* packets, read in pieces that cut through markers and payloads.          *)
(***************************************************************************)
\* a payload between the markers of its kind
Frame(payload) ==
  IF payload \in { 101, 102, 103 }
  THEN HEADER_START \o << payload >> \o HEADER_END
  ELSE CHUNK_START \o << payload >> \o CHUNK_END

\* the serial inputs: two framed packets, one after the other
Streams == { Frame(a) \o Frame(b) : a, b \in DOMAIN Payloads }

\* ser.in_waiting: nothing, or what has arrived, at most k bytes for a k of sizes
InWaiting(sizes) ==
  { 0 } \cup { IF k < Len(ser_in) THEN k ELSE Len(ser_in) : k \in sizes }

StreamReadSizes == { 3, 5, 9 }

InitStream == InitCollector /\ InitDecoder /\ \E stream \in Streams : InitTasks(stream)

NextStream ==
  \/ \E n \in InWaiting(StreamReadSizes) : ReaderLoop(n)
  \/ ReaderPut
  \/ ProcessorLoop

SpecStream == InitStream /\ [][NextStream]_vars

(***************************************************************************)
(* SpecFramer: serial_reader and packet_processor on streams whose markers *)
(* do not pair up: two runs of bytes, each after a header start, a chunk   *)
(* start or no start marker and before a header end or a chunk end.  The   *)
(* bytes are no packet of the model: both parsers slice them as they are   *)
(* and return the result of a body that does not decode.                   *)
(***************************************************************************)
FramerStarts == { << >>, HEADER_START, CHUNK_START }

FramerEnds == { HEADER_END, CHUNK_END }

FramerStreams ==
  { s1 \o << 65 >> \o e1 \o s2 \o << 66, 67 >> \o e2 :
      s1 \in FramerStarts, e1 \in FramerEnds, s2 \in FramerStarts, e2 \in FramerEnds }

InitFramer == InitCollector /\ InitDecoder /\ \E stream \in FramerStreams : InitTasks(stream)

SpecFramer == InitFramer /\ [][NextStream]_vars

(***************************************************************************)
(* SpecResync: serial_reader and packet_processor on streams with a start  *)
(* marker inside a packet: a start marker, bytes or none, a second start   *)
(* marker, bytes or none, an end marker, and then a framed chunk.           *)
(***************************************************************************)
ResyncStarts == { HEADER_START, CHUNK_START }

ResyncStreams ==
  { s1 \o x \o s2 \o y \o e \o Frame(104) :
      s1 \in ResyncStarts, x \in { << >>, << 101 >> },
      s2 \in ResyncStarts, y \in { << >>, << 101 >>, << 104 >> },
      e \in FramerEnds }

InitResync == InitCollector /\ InitDecoder /\ \E stream \in ResyncStreams : InitTasks(stream)

SpecResync == InitResync /\ [][NextStream]_vars

(***************************************************************************)
(* SpecDebug: serial_reader and packet_processor on text: a run of more    *)
(* than DEBUG_LIMIT bytes with no newline, then a DEBUG: line, read in     *)
(* pieces of 40.                                                          *)
(***************************************************************************)
\* n times the byte b
Run(b, n) == [ i \in 1..n |-> b ]

\* "DEBUG:" and a newline
DebugLine == << 68, 69, 66, 85, 71, 58, NEWLINE >>

DebugStreams ==
  { Run(65, DEBUG_LIMIT + k) \o DebugLine : k \in {0, 1, 50} }

DebugReadSizes == { 40 }

InitDebug == InitCollector /\ InitDecoder /\ \E stream \in DebugStreams : InitTasks(stream)

NextDebug ==
  \/ \E n \in InWaiting(DebugReadSizes) : ReaderLoop(n)
  \/ ReaderPut
  \/ ProcessorLoop

SpecDebug == InitDebug /\ [][NextDebug]_vars

(***************************************************************************)
(* SpecTasks: both tasks, the queue, the stop event and the supervising    *)
(* loop of monitor_serial, on a stream of bytes that belong to no packet.  *)
(***************************************************************************)
TaskStreams == { << 65, 66, 67, 68, 69, 70 >> }

TaskReadSizes == { 1, 2 }

InitTaskStream == InitCollector /\ InitDecoder /\ \E stream \in TaskStreams : InitTasks(stream)

\* the steps of the reader thread
ReaderStep == (\E n \in InWaiting(TaskReadSizes) : ReaderLoop(n)) \/ ReaderPut

\* the steps of the main thread that no outside event triggers
MainStep == MainPoll \/ MainFinally \/ MainJoin

NextTasks ==
  \/ \E n \in InWaiting(TaskReadSizes) : ReaderLoop(n)
  \/ ReaderPut
  \/ ReaderFail
  \/ ProcessorLoop
  \/ MainPoll
  \/ KeyboardInterrupt
  \/ MainFinally
  \/ MainJoin

SpecTasks == InitTaskStream /\ [][NextTasks]_vars

\* the threads are scheduled: a thread that can take a step takes one
SpecTasksFair ==
  /\ InitTaskStream /\ [][NextTasks]_vars
  /\ WF_vars(ReaderStep)
  /\ WF_vars(ProcessorLoop)
  /\ WF_vars(MainStep)

(***************************************************************************)
(* SpecDecode: the event decoder called on masks of the full 32-bit range. *)
(***************************************************************************)
\* the low and the high word of the masks given to the decoder: no bit, single
\* bits, several bits, every bit; the high words reach positions 30 and 31
LowWords == {0, 1, 2, 3, 4, 8, 260, 1028, 32768, 40960, 65535}

HighWords == {0, 1, 2, 3, 16384, 24576, 32768, 32769, 49152, 65535}

Masks == { <<lo, hi>> : lo \in LowWords, hi \in HighWords }

\* events = decode_event_type_one_hot(event_bits)
DecodeEvents(event_bits) ==
  /\ bitmask' = event_bits
  /\ event_names' = decode_event_type_one_hot(event_bits)
  /\ UNCHANGED <<collectorvars, taskvars, event_list, analyzed, pin_strength,
                 crc_message, crc_fast, crc_codec, matrix_call, matrix, results>>

NextDecode == \E event_bits \in Masks : DecodeEvents(event_bits)

SpecDecode == Init /\ [][NextDecode]_vars

(***************************************************************************)
(* SpecRoundTrip: lists of event names encoded and decoded again.          *)
(***************************************************************************)
\* names the decoder can return: table names and placeholders
RoundTripNames ==
  { "PIN_INITIALLY_LOW", "PIN_DISTURBED", "HANDSHAKE_OK_INITIATOR",
    "PIN_IS_CONNECTED_WITH_INTERNAL_PIN", "UART_RX_IS_NOT_WORKING",
    "EXPECTS_TO_WORK_IN_ONE_DIRECTION", "UNKNOWN_EVENT_16", "UNKNOWN_EVENT_30" }

\* the lists of at most MaxNames of these names, in every order, repeats included
MaxNames == 3

EventLists == UNION { [1..n -> RoundTripNames] : n \in 0..MaxNames }

\* decode_event_type_one_hot(encode_event_list(events))
EncodeDecode(events) ==
  /\ event_list' = events
  /\ bitmask' = encode_event_list(events)
  /\ event_names' = decode_event_type_one_hot(bitmask')
  /\ UNCHANGED <<collectorvars, taskvars, analyzed, pin_strength,
                 crc_message, crc_fast, crc_codec, matrix_call, matrix, results>>

NextRoundTrip == \E events \in EventLists : EncodeDecode(events)

SpecRoundTrip == Init /\ [][NextRoundTrip]_vars

(***************************************************************************)
(* SpecAnalyze: analyze_pin on the events of every combination of stage    *)
(* measurements.                                                           *)
(***************************************************************************)
\* the events that report stage as measured high (1), low (0) or not at all (U)
StageEvents(stage, value) ==
  IF value = 1 THEN << stage \o "_HIGH" >>
  ELSE IF value = 0 THEN << stage \o "_LOW" >>
  ELSE << >>

\* the events of the six stages measured as the tuple t says, in stage order
EventsOfTuple(t) ==
  StageEvents(checks[1], t[1]) \o StageEvents(checks[2], t[2]) \o
  StageEvents(checks[3], t[3]) \o StageEvents(checks[4], t[4]) \o
  StageEvents(checks[5], t[5]) \o StageEvents(checks[6], t[6])

\* all 3^6 tuples of stage values
StageTuples == [1..Len(checks) -> {0, 1, U}]

\* strength = analyze_pin(events)
AnalyzePin(events) ==
  /\ analyzed' = events
  /\ pin_strength' = analyze_pin(events)
  /\ UNCHANGED <<collectorvars, taskvars, bitmask, event_names, event_list,
                 crc_message, crc_fast, crc_codec, matrix_call, matrix, results>>

NextAnalyze == \E t \in StageTuples : AnalyzePin(EventsOfTuple(t))

SpecAnalyze == Init /\ [][NextAnalyze]_vars

(***************************************************************************)
(* SpecMask: _filter_weak_connections on a complete device whose pins      *)
(* carry stage measurement events.  The pin records are those process_chunk*)
(* stores (lines 297-303); their events are given to the function directly,*)
(* since the decoder returns no stage measurement name.                    *)
(***************************************************************************)
MaskFamily == "NRF"

\* the tuples of strength 2, 1, 0, -1 and -6 and a tuple that is not in the table
MaskTuples ==
  { <<1, 1, 0, 1, 0, 1>>, <<U, 1, 0, 1, 0, 1>>, <<0, 1, 0, 1, 0, 1>>,
    <<0, U, 0, 1, 0, 1>>, <<0, 0, 0, 0, 0, 0>>, <<U, U, U, U, U, U>> }

\* the pin record of lines 297-303 for a pin with these events and connections
StoredPin(pin_num, events, connections) ==
  [pin |-> pin_num, events |-> events, events_mask |-> 0,
   strength |-> analyze_pin(events), connections |-> connections]

\* the connection record of lines 279-281
StoredConn(other_pin, parameter, type) ==
  [other_pin |-> other_pin, parameter |-> parameter, type |-> type]

\* the connections of the first pin: one internal connection of any phase to
\* the second pin, to itself or to a pin the device has no record of, or one
\* external connection
MaskConns ==
  { StoredConn(q, ph, CONNECTION_TYPE_INTERNAL) : q \in {1, 2, 3}, ph \in 0..5 }
  \cup { StoredConn(2, ph, CONNECTION_TYPE_EXTERNAL) : ph \in {0, 1} }

\* two pins; the second has a pullup and a pulldown connection to the first
MaskPins ==
  { << StoredPin(1, EventsOfTuple(t1), << c >>),
       StoredPin(2, EventsOfTuple(t2),
                 << StoredConn(1, 1, CONNECTION_TYPE_INTERNAL),
                    StoredConn(1, 0, CONNECTION_TYPE_INTERNAL) >>) >> :
      t1 \in MaskTuples, t2 \in MaskTuples, c \in MaskConns }

\* the device record of a family whose one chunk of one session has arrived
CompleteDevice(pins) ==
  [NewDevice(header_result(HeaderData(MaskFamily, 1, Absent, None, None, Absent), H1, H1))
     EXCEPT !.pins = pins, !.received_sessions = (0 :> {0}),
            !.raw_session_chunks = (0 :> (0 :> EmptyBytes)), !.complete = TRUE]

\* self._filter_weak_connections(self.current_device_family), line 317
FilterWeakConnections(pins) ==
  /\ current_device_family' = MaskFamily
  /\ devices' = _filter_weak_connections(Put(<< >>, MaskFamily, CompleteDevice(pins)),
                                          MaskFamily, MaskFamily)
  /\ UNCHANGED <<ser_out, reports, sent, transitions, packets, headers, last,
                 taskvars, decodervars>>

NextMask == \E pins \in MaskPins : FilterWeakConnections(pins)

SpecMask == Init /\ [][NextMask]_vars

(***************************************************************************)
(* SpecCrc: both checksum functions on the same byte strings.              *)
(***************************************************************************)
\* the 9 ASCII bytes "123456789"
CheckString == <<49, 50, 51, 52, 53, 54, 55, 56, 57>>

MessageBytes == {0, 1, 49, 128, 255}

\* the byte strings of at most MaxMessage of these bytes, and the check string
MaxMessage == 3

Messages == UNION { [1..n -> MessageBytes] : n \in 0..MaxMessage } \cup {CheckString}

\* CRC32().crcFast(message) and calculate_crc(message)
ComputeChecksums(message) ==
  /\ crc_message' = message
  /\ crc_fast' = crcFast(message)
  /\ crc_codec' = calculate_crc(message)
  /\ UNCHANGED <<collectorvars, taskvars, bitmask, event_names, event_list,
                 analyzed, pin_strength, matrix_call, matrix, results>>

NextCrc == \E message \in Messages : ComputeChecksums(message)

SpecCrc == Init /\ [][NextCrc]_vars

(***************************************************************************)
(* SpecConnMatrix: create_connection_matrix on two complete devices whose  *)
(* pins carry external and internal connections.                           *)
(***************************************************************************)
\* family ids as the numbers external connections record as device ids
MatrixFamilies == {1, 2}

\* a device id no header has been seen for
UnknownFamily == 3

\* the connections a pin of the first device can carry: external ones to the
\* second device, to the first and to a device without a record, to a pin of
\* the second device and to a pin it does not have, and an internal one whose
\* phase is the number of the second device
MatrixConns ==
  { StoredConn(7, d, CONNECTION_TYPE_EXTERNAL) : d \in {1, 2, UnknownFamily} }
  \cup { StoredConn(8, 2, CONNECTION_TYPE_EXTERNAL), StoredConn(7, 2, CONNECTION_TYPE_INTERNAL) }

\* the lists of at most MaxConns of them
MaxConns == 2

MatrixConnLists == UNION { [1..n -> MatrixConns] : n \in 0..MaxConns }

\* a complete device with these pins, its connections flagged by the filter
FilteredDevice(family, pins) ==
  _filter_weak_connections(Put(<< >>, family, CompleteDevice(pins)), family, family)[family]

\* device 1 has pins 4 and 5, device 2 pins 9 and 7, in this order
MatrixDevices ==
  { Put(Put(<< >>, 1,
            FilteredDevice(1, << StoredPin(4, << >>, cs), StoredPin(5, << >>, ct) >>)),
        2,
        FilteredDevice(2,
          << StoredPin(9, << >>, << StoredConn(4, 1, CONNECTION_TYPE_EXTERNAL) >>),
             StoredPin(7, << >>, << >>) >>)) :
      cs \in MatrixConnLists,
      ct \in { << >>, << StoredConn(9, 2, CONNECTION_TYPE_EXTERNAL) >> } }

\* df = self.create_connection_matrix(controller_a, controller_b)
BuildConnectionMatrix(devs, controller_a, controller_b) ==
  /\ devices' = devs
  /\ current_device_family' = 2
  /\ matrix_call' = [op |-> "connection", a |-> controller_a, b |-> controller_b]
  /\ matrix' = create_connection_matrix(devs, controller_a, controller_b)
  /\ UNCHANGED <<ser_out, reports, sent, transitions, packets, headers, last, taskvars,
                 bitmask, event_names, event_list, analyzed, pin_strength,
                 crc_message, crc_fast, crc_codec, results>>

NextConnMatrix ==
  \E devs \in MatrixDevices, a \in MatrixFamilies, b \in MatrixFamilies \cup {UnknownFamily} :
    BuildConnectionMatrix(devs, a, b)

SpecConnMatrix == Init /\ [][NextConnMatrix]_vars

(***************************************************************************)
(* SpecPhaseMatrix: create_phase_matrix on a complete device whose pins    *)
(* have the events decoded from their masks and internal connections with  *)
(* and without mask flags.                                                 *)
(***************************************************************************)
\* no event; bit 10, PIN_IS_NOT_LOW_WHEN_PULLED_DOWN; bit 12,
\* PIN_IS_NOT_LOW_WHEN_DRIVEN_LOW
PhaseMasks == {0, 1024, 4096}

\* the pin record of lines 297-303 for a pin whose chunk carried events_raw
DecodedPin(pin_num, events_raw, connections) ==
  LET events == IF TruthyInt(events_raw) THEN decode_event_type_one_hot(Words(events_raw))
                ELSE << >>
  IN [pin |-> pin_num, events |-> events, events_mask |-> events_raw,
      strength |-> analyze_pin(events), connections |-> connections]

\* a connection record after _filter_weak_connections and, where phase_masked
\* is given, after _apply_phase_masking
FlaggedConn(other_pin, parameter, type, masked, phase_masked) ==
  [other_pin |-> other_pin, parameter |-> parameter, type |-> type,
   masked |-> masked, phase_masked |-> phase_masked]

\* the connection of the first pin: internal, of phase 0 or 2, to the second
\* pin or to a pin the device has no record of, with every combination of the
\* two flags; or external
PhaseConns ==
  { FlaggedConn(q, ph, CONNECTION_TYPE_INTERNAL, m, pm) :
      q \in {5, 6}, ph \in {0, 2}, m \in BOOLEAN, pm \in BOOLEAN }
  \cup { FlaggedConn(5, 2, CONNECTION_TYPE_EXTERNAL, FALSE, FALSE) }

PhaseDevices ==
  { Put(<< >>, 1,
        CompleteDevice(<< DecodedPin(4, m1, << c >>),
                          DecodedPin(5, m2,
                            << [other_pin |-> 4, parameter |-> 2,
                                type |-> CONNECTION_TYPE_INTERNAL, masked |-> FALSE] >>) >>)) :
      m1 \in PhaseMasks, m2 \in {0, 4096}, c \in PhaseConns }

\* the phases asked for: pulldown, drive-low, all-pullup-low and one out of range
PhasesAsked == {0, 2, 4, 6}

\* df = self.create_phase_matrix(controller, phase)
BuildPhaseMatrix(devs, controller, phase) ==
  /\ devices' = devs
  /\ current_device_family' = controller
  /\ matrix_call' = [op |-> "phase", a |-> controller, b |-> phase]
  /\ matrix' = create_phase_matrix(devs, controller, phase)
  /\ UNCHANGED <<ser_out, reports, sent, transitions, packets, headers, last, taskvars,
                 bitmask, event_names, event_list, analyzed, pin_strength,
                 crc_message, crc_fast, crc_codec, results>>

NextPhaseMatrix ==
  \E devs \in PhaseDevices, phase \in PhasesAsked : BuildPhaseMatrix(devs, 1, phase)

SpecPhaseMatrix == Init /\ [][NextPhaseMatrix]_vars

(***************************************************************************)
(* SpecVectors: analyze_connections on a device whose first pin holds up   *)
(* to MaxVectorConns connection records.  process_chunk extends a pin's    *)
(* list with the connections of every session (lines 294-295), so the same *)
(* connection can be in the list more than once.                           *)
(***************************************************************************)
\* internal connections to the second pin in phases 0, 1 and 2, unmasked,
\* masked or phase-masked, and an external connection
VectorConns ==
  { FlaggedConn(5, ph, CONNECTION_TYPE_INTERNAL, fl[1], fl[2]) :
      ph \in {0, 1, 2}, fl \in { <<FALSE, FALSE>>, <<TRUE, FALSE>>, <<FALSE, TRUE>> } }
  \cup { FlaggedConn(5, 2, CONNECTION_TYPE_EXTERNAL, FALSE, FALSE) }

MaxVectorConns == 2

VectorConnLists == UNION { [1..n -> VectorConns] : n \in 0..MaxVectorConns }

\* the connections of the second pin: none, or one back to the first pin
BackConnLists ==
  { << >> } \cup { << FlaggedConn(4, ph, CONNECTION_TYPE_INTERNAL, FALSE, FALSE) >> :
                     ph \in {0, 3} }

VectorDevices ==
  { Put(<< >>, 1, CompleteDevice(<< DecodedPin(4, 0, cs), DecodedPin(5, 0, bs) >>)) :
      cs \in VectorConnLists, bs \in BackConnLists }

\* results = analyze_connections(collector)
AnalyzeConnections(devs) ==
  /\ devices' = devs
  /\ current_device_family' = 1
  /\ results' = analyze_connections(devs)
  /\ UNCHANGED <<ser_out, reports, sent, transitions, packets, headers, last, taskvars,
                 bitmask, event_names, event_list, analyzed, pin_strength,
                 crc_message, crc_fast, crc_codec, matrix_call, matrix>>

NextVectors == \E devs \in VectorDevices : AnalyzeConnections(devs)

SpecVectors == Init /\ [][NextVectors]_vars

(***************************************************************************)
(* SpecPhaseMask: _apply_phase_masking on a complete, filtered device with *)
(* two pins that hold internal connections to each other in several        *)
(* phases, to a third pin, with a phase out of range, and external ones.   *)
(***************************************************************************)
\* a connection record after _filter_weak_connections
FilteredConn(other_pin, parameter, type) ==
  [other_pin |-> other_pin, parameter |-> parameter, type |-> type, masked |-> FALSE]

\* the connections of the first pin
ForwardConns ==
  { FilteredConn(5, ph, CONNECTION_TYPE_INTERNAL) : ph \in {0, 1, 2, 4, 6} }
  \cup { FilteredConn(6, 2, CONNECTION_TYPE_INTERNAL),
         FilteredConn(5, 2, CONNECTION_TYPE_EXTERNAL) }

MaxPhaseConns == 2

ForwardConnLists == UNION { [1..n -> ForwardConns] : n \in 0..MaxPhaseConns }

\* the connections of the second pin: back to the first one
ReverseConnLists ==
  { << >> } \cup { << FilteredConn(4, ph, CONNECTION_TYPE_INTERNAL) >> : ph \in {0, 2} }

PhaseMaskDevices ==
  { Put(<< >>, 1, CompleteDevice(<< DecodedPin(4, 0, cs), DecodedPin(5, 0, bs) >>)) :
      cs \in ForwardConnLists, bs \in ReverseConnLists }

\* self._apply_phase_masking(device_family) (line 782)
ApplyPhaseMasking(devs, device_family) ==
  /\ devices' = _apply_phase_masking(devs, device_family)
  /\ current_device_family' = 1
  /\ UNCHANGED <<ser_out, reports, sent, transitions, packets, headers, last,
                 taskvars, decodervars>>

NextPhaseMask ==
  \E devs \in PhaseMaskDevices, device_family \in {1, 2} : ApplyPhaseMasking(devs, device_family)

SpecPhaseMask == Init /\ [][NextPhaseMask]_vars

(***************************************************************************)
(* Completion                                                              *)
(***************************************************************************)
\* every session index in [0, expected_sessions) holds exactly total_chunks ids
AllSessionsFull(device) ==
  \A s_id \in 0..(device.expected_sessions - 1) :
    Cardinality(Get(device.received_sessions, s_id, {})) = device.total_chunks

\* the (session, chunk) pairs of a full transfer of n chunks in s sessions
FullSet(n, s) == (0..(s - 1)) \X (0..(n - 1))

\* C1: in every reachable state, for every device, complete is true if and
\* only if every session index in [0, expected_sessions) has received
\* exactly total_chunks chunk ids; also right after process_header and for
\* total_chunks / expected_sessions equal to 0 or absent from the header.
C1_CompleteIffAllSessionsFull ==
  \A f \in DOMAIN devices : devices[f].complete <=> AllSessionsFull(devices[f])

\* C2: after an accepted header with total_chunks = N >= 1 and
\* expected_sessions = S >= 1, while the checksum-valid chunks delivered
\* since then carry pairs of [0,S) x [0,N) only, the device of the header is
\* complete exactly when the delivered pairs cover the whole of
\* [0,S) x [0,N): false after every chunk but the last, true after the last.
C2_CompleteExactlyAfterLastChunk ==
  LET cur == current_device_family
  IN (/\ cur \in DOMAIN devices
      /\ devices[cur].total_chunks >= 1
      /\ devices[cur].expected_sessions >= 1
      /\ sent \subseteq FullSet(devices[cur].total_chunks, devices[cur].expected_sessions))
     => (devices[cur].complete
           <=> sent = FullSet(devices[cur].total_chunks, devices[cur].expected_sessions))

C3_DuplicateChunkChangesNothing ==
  \A d \in PinChunkInputs :
    LET r == chunk_result(PacketId, d, H1, H1)
        pc == process_chunk(devices, current_device_family, r)
        ic == is_complete(pc.devices, reports)
    IN AlreadyRecorded(devices, current_device_family, r)
       => /\ pc.devices = devices
          /\ ic.devices = devices
          /\ ic.reports = reports

\* a duplicate chunk that carries pin entries has been handed to a device
\* that holds pins with connections
C3_Witness ==
  /\ last.op = "chunk" /\ last.dup /\ last.hash_valid
  /\ current_device_family \in DOMAIN devices
  /\ \E i \in 1..Len(devices[current_device_family].pins) :
       Len(devices[current_device_family].pins[i].connections) > 0

\* C7: a successful process_header for family F stores a fresh record for F
\* (no pins, no sessions, no raw chunks, complete and saved false,
\* total_chunks / expected_sessions / uuid / version of the new header),
\* makes F the current family and leaves the record of every other family,
\* and the set of other families, as they were.
C7_HeaderResetsOnlyItsFamily ==
  \A d \in PinHeaderInputs :
    LET r == header_result(d, H1, H1)
        F == d[HEADER_KEY_DEVICE_FAMILY]
        ph == process_header(devices, current_device_family, r)
    IN /\ ph.ret
       /\ ph.current = F
       /\ DOMAIN ph.devices = DOMAIN devices \cup {F}
       /\ ph.devices[F] =
            [total_chunks |-> d[HEADER_KEY_TOTAL_CHUNKS],
             expected_sessions |-> 1,
             pins |-> << >>,
             received_sessions |-> << >>,
             raw_header |-> << >>,
             raw_session_chunks |-> << >>,
             complete |-> FALSE,
             saved |-> FALSE,
             uuid |-> Get(d, HEADER_KEY_DEVICE_UUID, "UNKNOWN"),
             git_commit |-> Get(d, HEADER_KEY_VERSION, None)]
       /\ \A g \in DOMAIN devices \ {F} : ph.devices[g] = devices[g]

\* a header has replaced a record that had received chunks, while another
\* family holds pins
C7_Witness ==
  /\ last.op = "header" /\ last.ret /\ last.discarded
  /\ \E g \in DOMAIN devices :
       g # current_device_family /\ Len(devices[g].pins) > 0

\* the connections of a pin as the chunks delivered them, without the mask flags
Measured(connections) ==
  [ i \in 1..Len(connections) |->
      [other_pin |-> connections[i].other_pin,
       parameter |-> connections[i].parameter,
       type |-> connections[i].type] ]

\* the measured connections the entry of a chunk delivers
Delivered(pin_entry) ==
  [ i \in 1..Len(pin_entry[KEY_CONNECTIONS]) |->
      [other_pin |-> pin_entry[KEY_CONNECTIONS][i][KEY_OTHER_PIN],
       parameter |-> pin_entry[KEY_CONNECTIONS][i][KEY_CONNECTION_PARAMETER],
       type |-> pin_entry[KEY_CONNECTIONS][i][KEY_CONNECTION_TYPE]] ]

\* C10: when process_chunk accepts a chunk, every pin the device held keeps
\* its place and its number; a pin the chunk carries an entry for takes the
\* entry's bitmask, the events decoded from it and their strength, and its
\* connections are the old ones followed by the entry's; a pin the chunk
\* has no entry for keeps events, bitmask, strength and connections.
C10_PinOverwrittenConnectionsAppended ==
  \A d \in PinChunkInputs :
    LET r == chunk_result(PacketId, d, H1, H1)
        cur == current_device_family
        pc == process_chunk(devices, cur, r)
        old == devices[cur].pins
        new == pc.devices[cur].pins
        entries == d[KEY_PINS]
    IN (cur \in DOMAIN devices /\ pc.ret)
       => /\ Len(new) >= Len(old)
          /\ \A j \in 1..Len(old) :
               /\ new[j].pin = old[j].pin
               /\ \A i \in 1..Len(entries) :
                    entries[i][KEY_PIN] = old[j].pin
                    => /\ new[j].events_mask = entries[i][KEY_EVENTS]
                       /\ new[j].events =
                            (IF entries[i][KEY_EVENTS] = 0 THEN << >>
                             ELSE decode_event_type_one_hot(Words(entries[i][KEY_EVENTS])))
                       /\ new[j].strength = analyze_pin(new[j].events)
                       /\ Measured(new[j].connections)
                            = Measured(old[j].connections) \o Delivered(entries[i])
               /\ (\A i \in 1..Len(entries) : entries[i][KEY_PIN] # old[j].pin)
                    => /\ new[j].events_mask = old[j].events_mask
                       /\ new[j].events = old[j].events
                       /\ new[j].strength = old[j].strength
                       /\ Measured(new[j].connections) = Measured(old[j].connections)

\* an accepted chunk has overwritten a pin that had other events and has
\* extended its connection list
C10_Witness ==
  /\ last.op = "chunk" /\ last.ret /\ last.merged
  /\ \E i \in 1..Len(devices[current_device_family].pins) :
       /\ devices[current_device_family].pins[i].events_mask = 66564
       /\ Len(devices[current_device_family].pins[i].connections) = 3

(***************************************************************************)
(* Rejected packets and acknowledgements                                   *)
(***************************************************************************)
\* received and computed checksums that differ
MismatchPairs == { <<H1, H2>>, <<H2, H1>> }

\* C5: a header or chunk whose received checksum differs from the computed
\* one is rejected: process_header / process_chunk return failure, devices
\* and the current family stay as they were (also through the completion
\* poll that follows a chunk) and the ACK branch writes nothing.
C5_ChecksumMismatchRejected ==
  \A h \in MismatchPairs :
    /\ \A d \in AckHeaderInputs :
         LET r == header_result(d, h[1], h[2])
             ph == process_header(devices, current_device_family, r)
         IN /\ ~ph.ret
            /\ ph.devices = devices
            /\ ph.current = current_device_family
            /\ AckBranch(ser_out, r) = ser_out
    /\ \A d \in AckChunkInputs :
         LET r == chunk_result(PacketId, d, h[1], h[2])
             pc == process_chunk(devices, current_device_family, r)
             ic == is_complete(pc.devices, reports)
         IN /\ ~pc.ret
            /\ pc.devices = devices
            /\ ic.devices = devices
            /\ ic.reports = reports
            /\ AckBranch(ser_out, r) = ser_out

\* a chunk with a wrong checksum that asked for an ACK has been handled
\* while the current device held pins, and a header likewise before it
C5_Witness ==
  /\ last.op = "chunk" /\ ~last.hash_valid /\ last.ack_requested /\ ~last.ret
  /\ current_device_family \in DOMAIN devices
  /\ Len(devices[current_device_family].pins) > 0

\* the 12 bytes of an ACK for the received checksums of the model:
\* 0x191A1B1C, the checksum and 0x1D1E1F20, least significant byte first
ExpectedFrame(received_hash) ==
  << 28, 27, 26, 25 >>
  \o (IF received_hash = 16909060 THEN << 4, 3, 2, 1 >> ELSE << 8, 7, 6, 5 >>)
  \o << 32, 31, 30, 29 >>

\* C6: every packet handler writes exactly one frame, the 12 bytes
\* ACK_START + received checksum + ACK_END in little-endian order, when the
\* packet's checksum is valid and it requested an ACK, whatever the
\* Collector returned for the packet, and writes nothing otherwise.
C6_OneAckPerValidRequestingPacket ==
  [][ser_out' = IF last'.hash_valid /\ last'.ack_requested
                THEN Append(ser_out, ExpectedFrame(last'.received_hash))
                ELSE ser_out]_vars

\* a duplicate chunk, which the Collector dropped, has been acknowledged
C6_Witness ==
  /\ last.op = "chunk" /\ last.dup /\ ~last.ret
  /\ last.hash_valid /\ last.ack_requested
  /\ Len(ser_out) >= 1
  /\ ser_out[Len(ser_out)] = ExpectedFrame(last.received_hash)
  /\ Len(ser_out[Len(ser_out)]) = 12

\* C8: process_header on a header whose checksum is invalid or whose body
\* has no family id returns failure, creates or resets no device and leaves
\* the current family as it was.
C8_BadHeaderChangesNothing ==
  \A d \in AckHeaderInputs : \A h \in ChecksumPairs :
    LET r == header_result(d, h[1], h[2])
        ph == process_header(devices, current_device_family, r)
    IN (h[1] # h[2] \/ HEADER_KEY_DEVICE_FAMILY \notin DOMAIN d)
       => /\ ~ph.ret
          /\ ph.devices = devices
          /\ ph.current = current_device_family

\* a checksum-valid header without family id has been rejected while a
\* collection was in progress
C8_Witness ==
  /\ last.op = "header" /\ last.hash_valid /\ ~last.ret
  /\ current_device_family \in DOMAIN devices
  /\ devices[current_device_family].received_sessions # << >>

\* C9: while no header has been accepted (no current family, no device
\* record for it), process_chunk on a checksum-valid chunk returns failure
\* and leaves devices as they were, and the completion poll reports nothing.
C9_ChunkNeedsActiveHeader ==
  (current_device_family \notin DOMAIN devices)
  => \A d \in AckChunkInputs : \A h \in { <<H1, H1>>, <<H2, H2>> } :
       LET r == chunk_result(PacketId, d, h[1], h[2])
           pc == process_chunk(devices, current_device_family, r)
           ic == is_complete(pc.devices, reports)
       IN /\ ~pc.ret
          /\ pc.devices = devices
          /\ ic.devices = devices
          /\ ic.reports = reports

\* a checksum-valid chunk has been refused after the only headers seen
\* had been rejected
C9_Witness ==
  /\ last.op = "chunk" /\ last.hash_valid /\ ~last.ret
  /\ current_device_family = None
  /\ devices = << >>
  /\ headers >= 1

(***************************************************************************)
(* Masking derivation and export                                           *)
(***************************************************************************)
\* C11: the masking derivation (_filter_weak_connections, last.filtered)
\* runs only in the process_chunk call that takes the current device from
\* complete = false to complete = true, hence at most once between two
\* header resets; no later process_chunk call runs it again.
C11_MaskingRunsOnceOnCompletion ==
  [][last'.filtered =>
       /\ current_device_family \in DOMAIN devices
       /\ ~devices[current_device_family].complete]_vars

\* the families the step has handed to save_device_report
Exported == SubSeq(reports', Len(reports) + 1, Len(reports'))

\* C12: a step exports only devices that are complete, and only devices
\* whose saved flag was false before the step and is true after it; after
\* the poll every complete device is saved, the saved flag stays set until
\* the next header, and polling again exports nothing: each completed
\* device is exported exactly once per header reset.
C12_ExportedOncePerReset ==
  [][/\ Len(reports') >= Len(reports)
     /\ SubSeq(reports', 1, Len(reports)) = reports
     /\ \A i \in 1..Len(Exported) :
          /\ Exported[i] \in DOMAIN devices
          /\ ~devices[Exported[i]].saved
          /\ devices'[Exported[i]].complete
          /\ devices'[Exported[i]].saved
          /\ \A j \in 1..Len(Exported) : Exported[j] = Exported[i] => j = i
     /\ \A f \in DOMAIN devices' :
          /\ devices'[f].complete => devices'[f].saved
          /\ (/\ f \in DOMAIN devices
              /\ devices[f].saved
              /\ ~(last'.op = "header" /\ last'.ret /\ current_device_family' = f))
             => devices'[f].saved
     /\ is_complete(devices', reports').devices = devices'
     /\ is_complete(devices', reports').reports = reports']_vars

\* a family has been exported, reset by a header, completed and exported
\* again, and a duplicate chunk has then polled without a further export
C12_Witness ==
  /\ Len(reports) = 2 /\ reports[1] = reports[2]
  /\ last.op = "chunk" /\ last.dup
  /\ devices[reports[1]].saved

\* C13: per family the state only moves forward along no-header ->
\* collecting -> complete(unsaved) -> complete(saved), the only way back
\* being a header reset; in particular, in every reachable state a device
\* whose saved flag is true is complete.
C13_SavedImpliesComplete ==
  \A f \in DOMAIN devices : devices[f].saved => devices[f].complete

(***************************************************************************)
(* Undecodable bodies                                                      *)
(***************************************************************************)
\* a packet whose CBOR body does not decode and whose checksums agree
UndecodablePackets ==
  { HexData(PacketId, CborBytes("undecodable", << >>), h, h) : h \in { H1, H2 } }

\* C14: a packet whose CBOR body fails to decode yields the sentinel body
\* from the codec, not an exception, and is then handled like a
\* checksum-invalid one even when the received checksum equals the computed
\* one: process_header / process_chunk return failure, devices and the
\* current family stay as they were (no header reset, no chunk id recorded)
\* and the ACK branch writes nothing.
C14_UndecodableChangesNothing ==
  \A x \in UndecodablePackets :
    LET hp == parse_header_packet(x)
        cp == parse_chunk_packet(x)
        ph == process_header(devices, current_device_family, hp.result)
        pc == process_chunk(devices, current_device_family, cp.result)
    IN /\ ~hp.none /\ ~cp.none
       /\ hp.result.data = (ERROR_KEY :> "cbor decode failed")
       /\ cp.result.data = (ERROR_KEY :> "cbor decode failed")
       /\ ~ph.ret /\ ph.devices = devices /\ ph.current = current_device_family
       /\ AckBranch(ser_out, hp.result) = ser_out
       /\ ~pc.ret /\ pc.devices = devices
       /\ AckBranch(ser_out, cp.result) = ser_out

(***************************************************************************)
(* Framing errors                                                          *)
(***************************************************************************)
\* the bytes of a sequence of byte-chunks, in order
RECURSIVE Flatten(_)
Flatten(chunks) ==
  IF chunks = << >> THEN << >> ELSE Head(chunks) \o Flatten(Tail(chunks))

\* the payloads of a byte stream that the codec parses into a result, each
\* as the packet accumulator holds it, in stream order
RECURSIVE Parseable(_)
Parseable(bytes) ==
  IF bytes = << >> THEN << >>
  ELSE (IF /\ Head(bytes) \in DOMAIN Payloads
           /\ Payloads[Head(bytes)].cbor_bytes.kind # "not_a_map"
        THEN << << Head(bytes) >> >> ELSE << >>) \o Parseable(Tail(bytes))

\* the reader has delivered the whole serial input and the processor has
\* taken all of it from the queue
StreamConsumed ==
  /\ ser_in = << >> /\ reader_pc = "loop" /\ new_data = << >> /\ data_queue = << >>

\* C15: no framed packet stalls the processor: after every pass of its loop
\* fewer than four bytes are left in the buffer (every end marker has been
\* consumed), and once the whole stream has been taken from the queue the
\* packet accumulator is empty and every packet of the stream that the codec
\* parses has been handed to the Collector, in stream order, whatever
\* packets (valid, checksum-invalid, undecodable, unparseable) came before.
C15_NoPacketStallsTheProcessor ==
  /\ Len(buffer) < 4
  /\ StreamConsumed => /\ packet_data = << >>
                       /\ handed = Parseable(Flatten(consumed))

(***************************************************************************)
(* The queue, cancellation and task death                                  *)
(***************************************************************************)
\* C16: the queue between the Reader and the Processor never holds more
\* than its capacity, and the byte-chunks the Processor has taken, followed
\* by those still queued, are exactly the byte-chunks the Reader pushed, in
\* the order it pushed them: each consumed once, in order, none lost.
C16_QueueIsBoundedFifo ==
  /\ Len(data_queue) <= maxsize
  /\ pushed = consumed \o data_queue

\* the queue is full while both tasks run and the Processor has already
\* taken a byte-chunk
C16_Witness ==
  /\ Len(data_queue) = maxsize
  /\ Len(consumed) >= 1
  /\ reader_pc # "done" /\ processor_pc # "done" /\ ~stop_event

\* C17: the Reader never waits for queue space: when it has a byte-chunk to
\* push and the queue is full, it can still take a step of its own (go on
\* to its next pass, where it looks at the cancellation signal).
C17_ReaderNeverWaitsForSpace ==
  (reader_pc = "put" /\ Len(data_queue) >= maxsize) => ENABLED ReaderStep

\* C18: once the cancellation signal is set, both the Reader and the
\* Processor eventually leave their loops, in every interleaving and
\* whatever the queue holds.
C18_CancellationStopsBothTasks ==
  stop_event ~> (reader_pc = "done" /\ processor_pc = "done")

\* C19: when the Reader or the Processor has terminated while the
\* cancellation signal is not set, the supervising loop eventually sets the
\* signal and the other task terminates too; a terminated task never runs
\* again.
C19_TaskDeathStopsSession ==
  /\ (reader_pc = "done" /\ ~stop_event) ~> (stop_event /\ processor_pc = "done")
  /\ (processor_pc = "done" /\ ~stop_event) ~> (stop_event /\ reader_pc = "done")
  /\ [][/\ reader_pc = "done" => reader_pc' = "done"
        /\ processor_pc = "done" => processor_pc' = "done"]_vars

\* the Reader has ended on a failure of the port with serial input still to
\* come, the signal is not set yet and the supervising loop has left its poll
C19_Witness ==
  /\ reader_pc = "done" /\ ~stop_event
  /\ processor_pc = "loop"
  /\ main_pc = "finally"
  /\ ser_in # << >>

(***************************************************************************)
(* Event decoding                                                          *)
(***************************************************************************)
\* the bit positions below top that are set in a mask
SetBits(m, top) == { p \in 0..(top - 1) : BitIsSet(m, p) }

\* the i-th smallest member of a set of positions
NthPosition(S, i) == CHOOSE p \in S : Cardinality({ q \in S : q < p }) = i - 1

\* the name of a position: the table's name, else the placeholder
EventNameOf(p) ==
  IF p \in DOMAIN PIN_EVENT_TYPES THEN PIN_EVENT_TYPES[p] ELSE UnknownEventName(p)

\* names is one name per member of S, in ascending position
NamesOfPositions(names, S) ==
  /\ Len(names) = Cardinality(S)
  /\ \A i \in 1..Len(names) : names[i] = EventNameOf(NthPosition(S, i))

\* C20 as stated: the names returned for a 32-bit mask are one name per set
\* bit among the 32 positions 0..31, in ascending position, the table's name
\* where the position has one and UNKNOWN_EVENT_<n> otherwise, so there are
\* as many names as the mask has set bits.
C20_OneNamePerSetBitOf32 == NamesOfPositions(event_names, SetBits(bitmask, 32))

\* C20: the names returned for a mask are one name per set bit among the 31
\* positions 0..30, in ascending position, the table's name where the
\* position has one and UNKNOWN_EVENT_<n> otherwise; bit 31 yields no name,
\* so there are as many names as the mask has set bits below position 31.
C20_OneNamePerSetBitBelow31 == NamesOfPositions(event_names, SetBits(bitmask, 31))

\* the decoder was given a mask with table positions 2 and 8 and the
\* positions 30 and 31 set, and named the first three
C20_Witness ==
  /\ bitmask = <<260, 49152>>
  /\ event_names = << "PIN_DISTURBED", "PIN_IS_CONNECTED_WITH_INTERNAL_PIN",
                      "UNKNOWN_EVENT_30" >>

\* C21: the names decoded from the mask a list of names was encoded to are,
\* as a set, exactly the names of the list, whatever their order in the list,
\* for lists of table names and of UNKNOWN_EVENT_<n> placeholders alike.
C21_EncodeDecodeRecoversTheSet == SeqToSet(event_names) = SeqToSet(event_list)

(***************************************************************************)
(* Strength classification                                                 *)
(***************************************************************************)
\* the tuple (stage 1 A, 1 B, 2 A, 2 B, 3 A, 3 B) of the analyzed events:
\* 1 for high, 0 for low, U for a stage without either
StageTupleOf(events) ==
  [ k \in 1..Len(checks) |->
      IF (checks[k] \o "_HIGH") \in SeqToSet(events) THEN 1
      ELSE IF (checks[k] \o "_LOW") \in SeqToSet(events) THEN 0
      ELSE U ]

\* C22: the strength returned for a pin's events is the strength of the
\* canonical tuple that equals the pin's 6-tuple position by position (a
\* placeholder equal only to a placeholder): +6 for all-high, -6 for all-low,
\* each of the 13 canonical tuples its own strength, undefined for every
\* tuple that is not in the table; so it is in -6..6 or undefined.
C22_StrengthByExactTupleMatch ==
  LET t == StageTupleOf(analyzed)
  IN /\ pin_strength \in (-6..6) \cup {NoneInt}
     /\ t = <<1, 1, 1, 1, 1, 1>> => pin_strength = 6
     /\ t = <<0, 0, 0, 0, 0, 0>> => pin_strength = -6
     /\ \A i \in 1..Len(patterns) : t = patterns[i][2] => pin_strength = patterns[i][1]
     /\ (\A i \in 1..Len(patterns) : t # patterns[i][2]) => pin_strength = NoneInt

\* a pin measured high, high, low, high, low, high was classified +2, although
\* the tuple of strength +3 differs from it only where it has a placeholder
C22_Witness ==
  /\ StageTupleOf(analyzed) = <<1, 1, 0, 1, 0, 1>>
  /\ pin_strength = 2

(***************************************************************************)
(* Strength masking                                                        *)
(***************************************************************************)
\* the classified strength stored for a pin number, undefined without a record
ClassifiedStrength(pins, pin_num) ==
  LET idx == { i \in 1..Len(pins) : pins[i].pin = pin_num }
  IN IF idx = {} THEN NoneInt ELSE pins[SetMax(idx)].strength

\* a strength is biased toward the direction a phase tests
Biased(strength, phase) ==
  /\ strength # NoneInt
  /\ \/ strength >= 1 /\ phase \in {1, 3}
     \/ strength <= -1 /\ phase \in {0, 2}

\* C23: in a complete device, an internal connection from pin P to pin Q
\* with phase ph is masked exactly when P's or Q's classified strength is
\* >= 1 and ph is 1 or 3, or is <= -1 and ph is 0 or 2 (undefined and zero
\* strength mask nothing), and every external connection is unmasked.
C23_MaskedIffEndpointBiased ==
  \A f \in DOMAIN devices :
    devices[f].complete =>
      \A i \in 1..Len(devices[f].pins) :
        LET P == devices[f].pins[i]
        IN \A j \in 1..Len(P.connections) :
             LET c == P.connections[j]
             IN c.masked =
                  (/\ c.type = CONNECTION_TYPE_INTERNAL
                   /\ \/ Biased(P.strength, c.parameter)
                      \/ Biased(ClassifiedStrength(devices[f].pins, c.other_pin),
                                c.parameter))

\* a pin of strength 0 has a masked pullup connection to a pin of strength 2,
\* and that pin's pulldown connection back is unmasked
C23_Witness ==
  /\ MaskFamily \in DOMAIN devices
  /\ LET pins == devices[MaskFamily].pins
     IN /\ pins[1].strength = 0 /\ pins[2].strength = 2
        /\ pins[1].connections[1] =
             [other_pin |-> 2, parameter |-> 1, type |-> CONNECTION_TYPE_INTERNAL,
              masked |-> TRUE]
        /\ ~pins[2].connections[2].masked

CheckValue == <<14630, 52212>>

\* C25: what CRC32.crcFast returns for a byte string is the checksum the
\* Packet Codec's function returns for it, and for the 9 ASCII bytes
\* "123456789" it is 0xCBF43926.
C25_CrcFastIsStandardCrc32 ==
  /\ crc_fast = crc_codec
  /\ crc_message = CheckString => crc_fast = CheckValue

(***************************************************************************)
(* Matrices                                                                *)
(***************************************************************************)
\* pin i of device A has an external connection recorded for device b whose
\* other pin is pin_b
ExternallyConnected(pin, b, pin_b) ==
  \E k \in 1..Len(pin.connections) :
    /\ pin.connections[k].type = CONNECTION_TYPE_EXTERNAL
    /\ pin.connections[k].parameter = b
    /\ pin.connections[k].other_pin = pin_b

\* C26: the connection matrix of a device pair (A, B) has one row per pin of
\* A and one column per pin of B, in each device's pin order, and cell (i, j)
\* is 1 exactly when pin i of A has an external connection whose device id
\* is B and whose other pin is pin j of B, and 0 otherwise; internal
\* connections set no cell.
C26_ConnectionMatrixCells ==
  (/\ matrix_call.op = "connection"
   /\ matrix_call.a \in DOMAIN devices
   /\ matrix_call.b \in DOMAIN devices)
  => LET A == devices[matrix_call.a]
         B == devices[matrix_call.b]
     IN /\ ~matrix.none
        /\ matrix.rows = [ i \in 1..Len(A.pins) |-> A.pins[i].pin ]
        /\ matrix.cols = [ j \in 1..Len(B.pins) |-> B.pins[j].pin ]
        /\ \A i \in 1..Len(A.pins), j \in 1..Len(B.pins) :
             matrix.cells[i][j] =
               IF ExternallyConnected(A.pins[i], matrix_call.b, B.pins[j].pin)
               THEN 1 ELSE 0

\* the matrix of devices (1, 2) where pin 4 has an internal connection to a
\* pin numbered 7 and an external connection to pin 7 of device 2: only the
\* cell of pin 4 and pin 7, the second column, is 1
C26_Witness ==
  /\ matrix_call = [op |-> "connection", a |-> 1, b |-> 2]
  /\ Len(devices[1].pins[1].connections) = 2
  /\ devices[1].pins[1].connections[1].type = CONNECTION_TYPE_INTERNAL
  /\ devices[1].pins[1].connections[2].type = CONNECTION_TYPE_EXTERNAL
  /\ matrix.rows = <<4, 5>> /\ matrix.cols = <<9, 7>>
  /\ matrix.cells = << <<0, 1>>, <<0, 0>> >>

\* the event with which a pin reports that its self-check of a phase failed:
\* the decoder's names for pulldown, pullup, drive-low and drive-high
\* (positions 10..13 of PIN_EVENT_TYPES), the matrix builder's own names for
\* the two extended phases, which the decoder's table does not have
SelfCheckEvent(phase) ==
  IF phase \in 0..3 THEN PIN_EVENT_TYPES[10 + phase] ELSE phase_error_events[phase]

\* C27: in the phase matrix of a device for a phase 0..5, the diagonal cell
\* of a pin is 1 exactly when the pin's events do not contain the self-check
\* event of that phase, and 0 otherwise, whatever its connections and their
\* mask flags.
C27_DiagonalIffSelfCheckPassed ==
  (matrix_call.op = "phase" /\ matrix_call.a \in DOMAIN devices /\ matrix_call.b \in 0..5)
  => LET pins == devices[matrix_call.a].pins
     IN /\ ~matrix.none
        /\ \A i \in 1..Len(pins) :
             matrix.cells[i][i] =
               IF SelfCheckEvent(matrix_call.b) \notin SeqToSet(pins[i].events)
               THEN 1 ELSE 0

\* the internal connections of a pin at a phase to the pin numbered pin_b
ConnectionsAt(pin, phase, pin_b) ==
  { k \in 1..Len(pin.connections) :
      /\ pin.connections[k].type = CONNECTION_TYPE_INTERNAL
      /\ pin.connections[k].parameter = phase
      /\ pin.connections[k].other_pin = pin_b }

\* C28: in the phase matrix of a device for a phase, the off-diagonal cell
\* (i, j) is 0 when pin i has no internal connection at that phase to pin j,
\* and otherwise 3 when the connection is phase-masked, 2 when it is
\* strength-masked and 1 when it is unmasked (the last such connection in
\* the pin's list deciding), whether or not pin i's events contain its own
\* self-check event.
C28_OffDiagonalByConnection ==
  (matrix_call.op = "phase" /\ matrix_call.a \in DOMAIN devices /\ matrix_call.b \in 0..5)
  => LET pins == devices[matrix_call.a].pins
     IN \A i \in 1..Len(pins), j \in 1..Len(pins) :
          i # j =>
            LET at == ConnectionsAt(pins[i], matrix_call.b, pins[j].pin)
            IN matrix.cells[i][j] =
                 IF at = {} THEN 0
                 ELSE LET conn == pins[i].connections[SetMax(at)]
                      IN IF is_phase_masked(conn) THEN 3
                         ELSE IF is_masked(conn) THEN 2
                         ELSE 1

(***************************************************************************)
(* Vector aggregation                                                      *)
(***************************************************************************)
\* the phases of the group seen on unmasked, not phase-masked internal
\* connections from pin source to pin target
ObservedPhases(pins, source, target, group_phases) ==
  { pins[i].connections[j].parameter :
      <<i, j>> \in { <<i, j>> \in (1..Len(pins)) \X (1..4) :
                       /\ j <= Len(pins[i].connections)
                       /\ pins[i].pin = source
                       /\ pins[i].connections[j].type = CONNECTION_TYPE_INTERNAL
                       /\ pins[i].connections[j].other_pin = target
                       /\ pins[i].connections[j].parameter \in group_phases
                       /\ ~is_masked(pins[i].connections[j])
                       /\ ~is_phase_masked(pins[i].connections[j]) } }

\* the component-wise sum of the table vectors of a set of phases
RECURSIVE TableVectorSum(_, _)
TableVectorSum(phases, direction) ==
  IF phases = {} THEN <<0, 0>>
  ELSE LET ph == CHOOSE x \in phases : TRUE
           v == PHASE_VECTORS[ph][direction]
           rest == TableVectorSum(phases \ {ph}, direction)
       IN <<v[1] + rest[1], v[2] + rest[2]>>

\* the vectors reported for the pair, the direction and the group
ReportedVectors(summary_data, a, b, direction, group) ==
  { summary_data[k].grouped_vectors[n].value :
      <<k, n>> \in { <<k, n>> \in (1..Len(summary_data)) \X (1..4) :
                       /\ n <= Len(summary_data[k].grouped_vectors)
                       /\ summary_data[k].pin_a = a
                       /\ summary_data[k].pin_b = b
                       /\ summary_data[k].grouped_vectors[n].direction = direction
                       /\ summary_data[k].grouped_vectors[n].group = group } }

\* C29: for every pin pair a < b, direction and parity group with an observed
\* unmasked, not phase-masked internal connection, analyze_connections
\* reports exactly one vector, the sum of the table vectors of the distinct
\* observed phases of the group in that direction, each counted once; where
\* nothing is observed it reports none.
C29_VectorIsSumOfDistinctObservedPhases ==
  \A family \in DOMAIN results :
    \A a \in {4, 5}, b \in {4, 5} :
      a < b =>
        \A group \in {1, 2} :
          LET group_phases == IF group = 1 THEN {0, 2, 4} ELSE {1, 3, 5}
              a_to_b == ObservedPhases(devices[family].pins, a, b, group_phases)
              b_to_a == ObservedPhases(devices[family].pins, b, a, group_phases)
          IN /\ ReportedVectors(results[family], a, b, "A_to_B", group)
                  = IF a_to_b = {} THEN {} ELSE { TableVectorSum(a_to_b, "A_to_B") }
             /\ ReportedVectors(results[family], a, b, "B_to_A", group)
                  = IF b_to_a = {} THEN {} ELSE { TableVectorSum(b_to_a, "B_to_A") }

(***************************************************************************)
(* Framing state                                                           *)
(***************************************************************************)
\* A framer with one idle/receiving state and one accumulator per kind, run
\* over a byte stream: the packets it emits, in order.  A byte that belongs
\* to no marker is added to the accumulator of every kind that is receiving;
\* an end marker emits the accumulator of its kind if that kind is receiving
\* and has bytes, and returns the kind to idle.
RECURSIVE SeparateFramer(_, _, _)
SeparateFramer(bytes, header, chunk) ==
  LET idle == [receiving |-> FALSE, bytes |-> << >>]
      start == [receiving |-> TRUE, bytes |-> << >>]
      rest == SubSeq(bytes, 5, Len(bytes))
      add(acc) == IF acc.receiving THEN [acc EXCEPT !.bytes = Append(@, Head(bytes))] ELSE acc
  IN IF Len(bytes) < 4 THEN << >>
     ELSE IF SubSeq(bytes, 1, 4) = HEADER_START THEN SeparateFramer(rest, start, chunk)
     ELSE IF SubSeq(bytes, 1, 4) = CHUNK_START THEN SeparateFramer(rest, header, start)
     ELSE IF SubSeq(bytes, 1, 4) = HEADER_END
     THEN (IF header.receiving /\ header.bytes # << >>
           THEN << [kind |-> "header", packet_data |-> header.bytes] >> ELSE << >>)
          \o SeparateFramer(rest, idle, chunk)
     ELSE IF SubSeq(bytes, 1, 4) = CHUNK_END
     THEN (IF chunk.receiving /\ chunk.bytes # << >>
           THEN << [kind |-> "chunk", packet_data |-> chunk.bytes] >> ELSE << >>)
          \o SeparateFramer(rest, header, idle)
     ELSE SeparateFramer(Tail(bytes), add(header), add(chunk))

\* C30: the header parser is called only at a header end that finds a header
\* being received, the chunk parser only at a chunk end that finds a chunk
\* being received, and once the whole stream has been taken from the queue
\* the parser calls are, in order, those of a framer that keeps a separate
\* idle/receiving state and the bytes since the matching start marker for
\* each kind: no bytes gathered after a start of one kind reach the parser
\* of the other kind.
C30_SeparateStatePerKind ==
  /\ \A k \in 1..Len(emitted) :
       /\ emitted[k].kind = "header" => emitted[k].receiving_header
       /\ emitted[k].kind = "chunk" => emitted[k].receiving_chunk
  /\ StreamConsumed =>
       [ k \in 1..Len(emitted) |->
           [kind |-> emitted[k].kind, packet_data |-> emitted[k].packet_data] ]
         = SeparateFramer(Flatten(consumed),
                          [receiving |-> FALSE, bytes |-> << >>],
                          [receiving |-> FALSE, bytes |-> << >>])

(***************************************************************************)
(* The debug-line buffer                                                   *)
(***************************************************************************)
\* the last n elements of a sequence
Suffix(q, n) == SubSeq(q, Len(q) - n + 1, Len(q))

\* the debug buffer after every byte of a run of bytes, starting from d
RECURSIVE DebugLengthsWithin(_, _, _)
DebugLengthsWithin(d, data, i) ==
  IF i > Len(data) THEN Len(d) <= DEBUG_LIMIT
  ELSE IF Len(d) <= DEBUG_LIMIT
  THEN DebugLengthsWithin(debug_byte(d, data[i]), data, i + 1)
  ELSE FALSE

\* C31: after each input byte is handled the debug-line buffer holds at most
\* 1000 bytes, none of them a newline, and the binary protocol buffer is the
\* unaltered tail of the bytes taken from the queue, whatever was cleared
\* from the debug buffer.
C31_DebugBufferBounded ==
  /\ Len(debug_buffer) <= DEBUG_LIMIT
  /\ \A i \in 1..Len(debug_buffer) : debug_buffer[i] # NEWLINE
  /\ data_queue # << >> => DebugLengthsWithin(debug_buffer, Head(data_queue), 1)
  /\ Len(buffer) <= Len(Flatten(consumed))
  /\ buffer = Suffix(Flatten(consumed), Len(buffer))

\* a line of more than 1000 bytes has been cleared from the debug buffer
\* before its newline came, and the bytes after the clearing are held
C31_Witness ==
  /\ Len(Flatten(consumed)) > DEBUG_LIMIT
  /\ \A i \in 1..Len(Flatten(consumed)) : Flatten(consumed)[i] # NEWLINE
  /\ debug_buffer # << >>
  /\ Len(debug_buffer) < Len(Flatten(consumed))

(***************************************************************************)
(* The ACK after the Collector                                             *)
(***************************************************************************)
\* the positions of the calls op made for the marker of a position
CallsFor(op, k) ==
  { n \in 1..Len(calls) : calls[n].op = op /\ calls[n].marker = calls[k].marker }

\* the ACK frames a stream of model payloads asks for, in stream order
RECURSIVE ExpectedAcks(_)
ExpectedAcks(bytes) ==
  IF bytes = << >> THEN << >>
  ELSE (IF /\ Head(bytes) \in DOMAIN Payloads
           /\ Payloads[Head(bytes)].cbor_bytes.kind = "map"
           /\ TruthyInt(Get(Payloads[Head(bytes)].cbor_bytes.map, ACK_REQUESTED, 0))
           /\ Payloads[Head(bytes)].received_hash = Payloads[Head(bytes)].calculated_hash
        THEN << ExpectedFrame(Payloads[Head(bytes)].received_hash) >> ELSE << >>)
       \o ExpectedAcks(Tail(bytes))

\* C32: every ACK is written after the Collector call for the same packet
\* (process_header, or process_chunk and the completion check with the
\* export it triggers) and before the next marker is taken from the buffer,
\* one ACK per packet at most; the ACKs written are, in order, those of the
\* first packets of the stream that ask for one.
C32_AckAfterCollector ==
  /\ \A k \in 1..Len(calls) :
       calls[k].op = "send_ack" =>
         /\ CallsFor("send_ack", k) = {k}
         /\ \A n \in Markers(calls) : n > k => calls[n].marker > calls[k].marker
         /\ \/ /\ CallsFor("process_header", k) # {}
               /\ \A n \in CallsFor("process_header", k) : n < k
            \/ /\ CallsFor("process_chunk", k) # {}
               /\ CallsFor("is_complete", k) # {}
               /\ \A n \in CallsFor("process_chunk", k) \cup CallsFor("is_complete", k)
                             \cup CallsFor("save_device_report", k) : n < k
  /\ Cardinality({ k \in 1..Len(calls) : calls[k].op = "send_ack" }) = Len(ser_out)
  /\ Len(ser_out) <= Len(ExpectedAcks(Flatten(consumed)))
  /\ ser_out = SubSeq(ExpectedAcks(Flatten(consumed)), 1, Len(ser_out))

\* two packets have been acknowledged, the second a chunk whose completion
\* check exported the device
C32_Witness ==
  /\ Len(ser_out) = 2
  /\ \E k \in 1..Len(calls) : calls[k].op = "save_device_report"

(***************************************************************************)
(* Phase-presence masking                                                  *)
(***************************************************************************)
\* the phases of the internal connections with a phase in 0..5 that the pins
\* numbered source hold to the pin numbered target
PhasesOfOrderedPair(pins, source, target) ==
  { ph \in 0..5 :
      \E i \in 1..Len(pins) :
        /\ pins[i].pin = source
        /\ \E j \in 1..Len(pins[i].connections) :
             /\ pins[i].connections[j].type = CONNECTION_TYPE_INTERNAL
             /\ pins[i].connections[j].other_pin = target
             /\ pins[i].connections[j].parameter = ph }

\* the internal connections with a phase in 0..5 that carry a phase_masked
\* flag, each with its ordered pair
FlaggedConnections(pins) ==
  { [source |-> pins[ij[1]].pin, conn |-> pins[ij[1]].connections[ij[2]]] :
      ij \in { ij \in (1..Len(pins)) \X (1..8) :
                 /\ ij[2] <= Len(pins[ij[1]].connections)
                 /\ pins[ij[1]].connections[ij[2]].type = CONNECTION_TYPE_INTERNAL
                 /\ pins[ij[1]].connections[ij[2]].parameter \in 0..5
                 /\ "phase_masked" \in DOMAIN pins[ij[1]].connections[ij[2]] } }

\* C33: after phase masking, the phase_masked flag of an internal connection
\* from pin P to pin Q with a phase in 0..5 is the masking rule applied to
\* that phase and the set of phases observed for the ordered pair (P, Q)
\* alone; two flagged connections with the same phase whose ordered pairs
\* have the same phase sets (in particular two of one ordered pair) carry
\* the same flag, whatever the reverse pair and the other pairs hold.
C33_PhaseMaskPerOrderedPair ==
  \A family \in DOMAIN devices :
    LET pins == devices[family].pins
    IN /\ \A c \in FlaggedConnections(pins) :
            c.conn.phase_masked
              = ~should_keep_phase(c.conn.parameter,
                                   PhasesOfOrderedPair(pins, c.source, c.conn.other_pin))
       /\ \A c, d \in FlaggedConnections(pins) :
            /\ c.conn.parameter = d.conn.parameter
            /\ PhasesOfOrderedPair(pins, c.source, c.conn.other_pin)
                 = PhasesOfOrderedPair(pins, d.source, d.conn.other_pin)
            => c.conn.phase_masked = d.conn.phase_masked

\* pin 4's phase-2 connection to pin 5 is phase-masked although the reverse
\* pair (5, 4) was observed in phase 0
C33_Witness ==
  /\ 1 \in DOMAIN devices
  /\ \E c \in FlaggedConnections(devices[1].pins) :
       /\ c.source = 4 /\ c.conn.other_pin = 5 /\ c.conn.parameter = 2
       /\ c.conn.phase_masked
       /\ 0 \in PhasesOfOrderedPair(devices[1].pins, 5, 4)

(***************************************************************************)
(* The pin list                                                            *)
(***************************************************************************)
\* the pin numbers of a pin list, in list order
PinNumbersOf(pins) == [ i \in 1..Len(pins) |-> pins[i].pin ]

\* the numbers of the entries from the i-th on that are not among seen, each
\* once, in the order of their first entry
RECURSIVE FirstSightings(_, _, _)
FirstSightings(entries, i, seen) ==
  IF i > Len(entries) THEN << >>
  ELSE IF entries[i][KEY_PIN] \in seen THEN FirstSightings(entries, i + 1, seen)
  ELSE << entries[i][KEY_PIN] >>
       \o FirstSightings(entries, i + 1, seen \cup { entries[i][KEY_PIN] })

\* q starts with p
IsPrefix(p, q) == Len(p) <= Len(q) /\ SubSeq(q, 1, Len(p)) = p

\* the pin numbers of every device are pairwise distinct, and a chunk that
\* process_chunk accepts leaves the device's pin numbers in place and adds
\* the numbers it brings for the first time at the end, in chunk order
PinsDistinctAndAppended ==
  /\ \A f \in DOMAIN devices :
       \A i, j \in 1..Len(devices[f].pins) :
         devices[f].pins[i].pin = devices[f].pins[j].pin => i = j
  /\ \A d \in PinChunkInputs :
       LET cur == current_device_family
           pc == process_chunk(devices, cur, chunk_result(PacketId, d, H1, H1))
       IN (cur \in DOMAIN devices /\ pc.ret)
          => PinNumbersOf(pc.devices[cur].pins)
               = PinNumbersOf(devices[cur].pins)
                 \o FirstSightings(d[KEY_PINS], 1,
                                   { devices[cur].pins[i].pin :
                                       i \in 1..Len(devices[cur].pins) })

\* a step keeps every device's pin numbers as the start of its new pin list,
\* unless it is an accepted header, which empties the list of its family
PinsKeptUnlessHeaderReset ==
  \A f \in DOMAIN devices :
    \/ /\ f \in DOMAIN devices'
       /\ IsPrefix(PinNumbersOf(devices[f].pins), PinNumbersOf(devices'[f].pins))
    \/ /\ last'.op = "header" /\ last'.ret
       /\ f = current_device_family'
       /\ devices'[f].pins = << >>

\* C34: in every reachable Collector state the pin numbers of a device's pin
\* list are pairwise distinct and in the order of first sighting: an accepted
\* chunk appends the pins with new numbers at the end and never removes or
\* reorders pins; only a header reset empties the list.
C34_PinsDistinctInFirstSightingOrder ==
  []PinsDistinctAndAppended /\ [][PinsKeptUnlessHeaderReset]_vars

\* a chunk has added pin 5 behind pin 4, which an earlier chunk had brought
C34_Witness ==
  /\ last.op = "chunk" /\ last.ret /\ last.merged
  /\ current_device_family \in DOMAIN devices
  /\ PinNumbersOf(devices[current_device_family].pins) = << 4, 5 >>

(***************************************************************************)
(* Packets cut short                                                       *)
(***************************************************************************)
\* the bytes the layout of a packet asks for after id_bytes bytes of packet
\* id: 2 of length, the declared length of CBOR, 4 of checksum
RequiredBytes(data, id_bytes) ==
  id_bytes + 2 + from_bytes(Slice(data, id_bytes, id_bytes + 2))[1] + 4

\* accumulated header bytes that are fewer than their layout requires
ShortHeaders ==
  { d \in { << 65 >>, << 0, 0 >>, << 1, 0, 160 >>, << 3, 0, 161, 1 >> } :
      Len(d) < RequiredBytes(d, 0) }

\* accumulated chunk bytes that are fewer than their layout requires: a
\* packet id alone, a packet id and a zero length, and bodies cut short
ShortChunks ==
  { d \in { << 7 >>, << 7, 0, 0 >>, << 7, 1, 0, 160 >>, << 7, 3, 0, 161 >> } :
      Len(d) < RequiredBytes(d, 1) }

\* C35: a packet whose accumulated bytes are fewer than its layout requires
\* (2 + length + 4 bytes for a header, 1 + 2 + length + 4 for a chunk) is
\* never reported checksum_valid and never changes Collector state: a chunk
\* frame holding only a packet id, or a packet id and a zero length, is not
\* recorded as a received chunk.
C35_ShortPacketNeverValid ==
  /\ \A d \in ShortHeaders :
       LET hp == parse_header_packet(hex(d))
           ph == process_header(devices, current_device_family, hp.result)
       IN ~hp.none
          => /\ ~hp.result.hash_valid
             /\ ph.devices = devices /\ ph.current = current_device_family
  /\ \A d \in ShortChunks :
       LET cp == parse_chunk_packet(hex(d))
           pc == process_chunk(devices, current_device_family, cp.result)
       IN ~cp.none
          => /\ ~cp.result.hash_valid
             /\ pc.devices = devices

(***************************************************************************)
(* The cuts of the byte stream                                             *)
(***************************************************************************)
\* packet_processor's loop over the buffer run once on the whole of data,
\* from the state packet_processor starts in (lines 143-150): what the
\* Processor does when the Reader hands it the stream as one queue item
ScanWhole(data) ==
  Scan([buffer |-> data, packet_data |-> << >>,
        receiving_header |-> FALSE, receiving_chunk |-> FALSE,
        devices |-> << >>, current |-> None, ser_out |-> << >>,
        reports |-> << >>, handed |-> << >>, emitted |-> << >>,
        calls |-> << >>, raised |-> FALSE])

\* the packets given to the parsers, each with its kind and its bytes
EmittedPackets(log) ==
  [ k \in 1..Len(log) |-> << log[k].kind, log[k].packet_data >> ]

\* C36: framing does not depend on how the Reader cuts the byte stream into
\* queue items: once the whole stream has been taken from the queue, the
\* packets the Processor has emitted and the Collector state it has reached
\* are those of the same stream handed over in one piece, whatever the cuts.
C36_FramingIndependentOfCuts ==
  StreamConsumed
    => LET whole == ScanWhole(Flatten(consumed))
       IN /\ EmittedPackets(emitted) = EmittedPackets(whole.emitted)
          /\ devices = whole.devices
          /\ current_device_family = whole.current

\* the same for the streams in which every header is one the codec parses
C36_CutsOfParsedStreams ==
  (/\ StreamConsumed
   /\ \A k \in 1..Len(emitted) :
        ~parse_header_packet(hex(emitted[k].packet_data)).none)
    => LET whole == ScanWhole(Flatten(consumed))
       IN /\ EmittedPackets(emitted) = EmittedPackets(whole.emitted)
          /\ devices = whole.devices
          /\ current_device_family = whole.current

(***************************************************************************)
(* The first chunk after a header                                          *)
(***************************************************************************)
\* process_chunk on the checksum-valid chunk d returns success and leaves
\* the chunk id of d among those received for the current family
ChunkAccepted(d) ==
  LET pc == process_chunk(devices, current_device_family,
                          chunk_result(PacketId, d, H1, H1))
      chunk_id == Get(d, KEY_CHUNK_ID, PacketId)
      session_id == Get(d, KEY_STREAM_NUMBER, 0)
  IN /\ pc.ret
     /\ current_device_family \in DOMAIN pc.devices
     /\ chunk_id \in Get(pc.devices[current_device_family].received_sessions,
                         session_id, {})

\* C37: after process_header has succeeded for a header whose family id is
\* present, whatever its value (the empty string included), the next
\* checksum-valid chunk, whose (session, chunk) pair is new since the header
\* emptied the received sessions, is accepted: process_chunk returns success
\* and records the chunk id for that family.
C37_ChunkAcceptedAfterAnyFamily ==
  (last.op = "header" /\ last.ret) => \A d \in ChunkInputs : ChunkAccepted(d)

\* the same for the families process_chunk treats as active
C37_ChunkAcceptedAfterActiveFamily ==
  (last.op = "header" /\ last.ret /\ TruthyFamily(current_device_family))
    => \A d \in ChunkInputs : ChunkAccepted(d)

(***************************************************************************)
(* The family a chunk belongs to                                           *)
(***************************************************************************)
\* process_chunk on any chunk leaves the set of families and the record of
\* every family but the current one as they were, and a chunk it accepts is
\* recorded for the current family
ChunkGoesToCurrentFamily ==
  \A d \in PinChunkInputs :
    LET cur == current_device_family
        pc == process_chunk(devices, cur, chunk_result(PacketId, d, H1, H1))
    IN /\ DOMAIN pc.devices = DOMAIN devices
       /\ \A f \in DOMAIN devices \ { cur } : pc.devices[f] = devices[f]
       /\ pc.ret => /\ cur \in DOMAIN devices
                    /\ Get(d, KEY_CHUNK_ID, PacketId)
                         \in Get(pc.devices[cur].received_sessions, 0, {})

\* a chunk step keeps the current family, which the last accepted header
\* set, and the record of every other family
ChunkStepKeepsOtherFamilies ==
  last'.op = "chunk"
    => /\ current_device_family' = current_device_family
       /\ \A f \in DOMAIN devices \ { current_device_family } :
            f \in DOMAIN devices' /\ devices'[f] = devices[f]

\* C38: process_chunk attributes every chunk to the family of the most
\* recently accepted header: an accepted chunk changes only that family's
\* record, and the records of all other families (pins, connections,
\* received sessions, complete, saved, mask flags) are unchanged, also when
\* an earlier family's collection was still incomplete when the later
\* header arrived.
C38_ChunkChangesOnlyCurrentFamily ==
  []ChunkGoesToCurrentFamily /\ [][ChunkStepKeepsOtherFamilies]_vars

\* a chunk has been accepted for the family of the last header while the
\* record of an earlier family holds pins and is still incomplete
C38_Witness ==
  /\ last.op = "chunk" /\ last.ret
  /\ current_device_family \in DOMAIN devices
  /\ devices[current_device_family].pins # << >>
  /\ \E f \in DOMAIN devices \ { current_device_family } :
       devices[f].pins # << >> /\ ~devices[f].complete

(***************************************************************************)
(* The strength of the pins the decoder describes                          *)
(***************************************************************************)
\* the names get_val looks for
StageNames == { checks[k] \o suffix : k \in 1..Len(checks), suffix \in { "_HIGH", "_LOW" } }

\* the names decode_event_type_one_hot can return, one per bit position
DecoderNames ==
  { Get(PIN_EVENT_TYPES, b, UnknownEventName(b)) : b \in 0..(DecodedBits - 1) }

\* masks with no bit, the low six bits, every bit of a word and all 31 bits
\* the decoder looks at: with every name of DecoderNames among the events of
\* the last, a mask with fewer bits gives get_val no more to find
StrengthMasks == { << lo, hi >> : lo \in { 0, 63, 65535 }, hi \in { 0, 32767 } }

\* the connections of the stored pins whose masked flag has been computed
ComputedFlags ==
  UNION { UNION { { << f, i, j >> :
                      j \in { k \in 1..Len(devices[f].pins[i].connections) :
                                "masked" \in DOMAIN devices[f].pins[i].connections[k] } } :
                  i \in 1..Len(devices[f].pins) } :
          f \in DOMAIN devices }

\* C39: for every event bitmask the strength classified from the decoder's
\* output is undefined, because no name the decoder can produce is one of
\* the stage measurement names the classifier looks for; hence in every
\* reachable Collector state every stored pin has undefined strength and
\* every connection's masked flag, once computed, is false.
C39_DecodedStrengthUndefined ==
  /\ DecoderNames \cap StageNames = {}
  /\ \A event_bits \in StrengthMasks :
       analyze_pin(decode_event_type_one_hot(event_bits)) = NoneInt
  /\ \A f \in DOMAIN devices :
       \A i \in 1..Len(devices[f].pins) :
         /\ analyze_pin(decode_event_type_one_hot(Words(devices[f].pins[i].events_mask)))
              = NoneInt
         /\ devices[f].pins[i].strength = NoneInt
  /\ \A c \in ComputedFlags :
       ~devices[c[1]].pins[c[2]].connections[c[3]].masked

\* a complete device holds a pin with decoded events, and the masked flag of
\* one of its connections has been computed
C39_Witness ==
  /\ last.op = "chunk" /\ last.filtered
  /\ \E c \in ComputedFlags :
       /\ devices[c[1]].complete
       /\ devices[c[1]].pins[c[2]].events # << >>

(***************************************************************************)
(* Markers out of sequence                                                 *)
(***************************************************************************)
\* the bytes the framing loop has taken from its buffer
Scanned ==
  SubSeq(Flatten(consumed), 1, Len(Flatten(consumed)) - Len(buffer))

\* the positions of bytes at which a marker ends
MarkerEnds(bytes) ==
  { k \in 4..Len(bytes) : SubSeq(bytes, k - 3, k) \in ResyncStarts \cup FramerEnds }

\* where the marker before the one that ends at k ends, 0 if there is none
PrevMarker(bytes, k) ==
  SetMax({ 0 } \cup { m \in MarkerEnds(bytes) : m < k })

\* the bytes between the marker that ends at k and the marker before it
Between(bytes, k) == SubSeq(bytes, PrevMarker(bytes, k) + 1, k - 4)

\* the marker that ends at k is an end marker that follows a start marker
EndsPacket(bytes, k) ==
  /\ k \in MarkerEnds(bytes)
  /\ SubSeq(bytes, k - 3, k) \in FramerEnds
  /\ PrevMarker(bytes, k) > 0
  /\ SubSeq(bytes, PrevMarker(bytes, k) - 3, PrevMarker(bytes, k)) \in ResyncStarts

\* the packets of bytes from position k on: for every end marker, the bytes
\* since the start marker before it, unless there are none
RECURSIVE PacketsFrom(_, _)
PacketsFrom(bytes, k) ==
  IF k > Len(bytes) THEN << >>
  ELSE (IF EndsPacket(bytes, k) /\ Between(bytes, k) # << >>
        THEN << << IF SubSeq(bytes, k - 3, k) = HEADER_END THEN "header" ELSE "chunk",
                   Between(bytes, k) >> >>
        ELSE << >>) \o PacketsFrom(bytes, k + 1)

\* the number, among the markers, of the marker that ends at k
MarkerNumber(bytes, k) == Cardinality({ m \in MarkerEnds(bytes) : m <= k })

====
